---- MODULE Spec2Model ----
(***************************************************************************)
(* A model of the RsMd Markdown front end: the tokenizer (src/src/lexer.rs) *)
(* and the block and inline parsers (src/src/parser.rs, src/src/types.rs).  *)
(* Strings are sequences of graphemes, as the tokenizer sees them.          *)
(***************************************************************************)
EXTENDS Integers, Sequences, FiniteSets, TLC

VARIABLES
    chars,      \* tokenize: the graphemes of markdown_line
    i,          \* tokenize: scan index (0-based, as in the source)
    tokens,     \* tokenize: the token vector built so far
    buffer,     \* tokenize: the accumulating text buffer
    reads,      \* tokenize: indices of chars read by the last loop iteration
    tk_pc,      \* tokenize: "scan", "done" or "panic" ("idle" when not running)
    line_flat,  \* flatten_inline(parse_inline(tokenize(line))), NotParsed before
    cursor,     \* parse_inline: the TokenCursor [tokens, current_position]
    parsed_inline_elements, \* parse_inline: the element vector
    delimiter_stack,        \* parse_inline: the Delimiter stack
    inl_buffer, \* parse_inline: the text buffer
    rs_i,       \* resolve_emphasis: index of the closer
    rs_j,       \* resolve_emphasis: index of the opener candidate
    closer,     \* resolve_emphasis: the clone of the closer
    rs_pc,      \* resolve_emphasis: "start", "outer", "inner", "final", "done", "panic"
    inl_pc,     \* parse_inline: "scan", "resolve", "done", "panic" ("idle" when not running)
    tokenized_lines,        \* the document: one token vector per line
    line_index,             \* group_lines_to_blocks: lines consumed so far
    blocks,                 \* group_lines_to_blocks: the groups built so far
    is_inside_code_block,   \* group_lines_to_blocks: a fence is open
    current_block,          \* group_lines_to_blocks: the group in progress
    block_elements,         \* parse_blocks: the block elements returned
    doc_pc,     \* "group", "done" or "panic" ("idle" when not running)
    table_src,  \* the table the document was written from (NoTable when none)
    hd_line,    \* parse_heading: the line
    hd_i,       \* parse_heading: the index i
    heading_level,      \* parse_heading: the u8 counter
    overflow_checks,    \* parse_heading: the build checks integer overflow
    hd_block,   \* parse_heading: the block returned (NoBlock before)
    hd_pc       \* parse_heading: "count", "counted", "done", "panic" ("idle" when not running)

tok_vars == <<chars, i, tokens, buffer, reads, tk_pc, line_flat>>
inl_vars == <<cursor, parsed_inline_elements, delimiter_stack, inl_buffer,
              rs_i, rs_j, closer, rs_pc, inl_pc>>
doc_vars == <<tokenized_lines, line_index, blocks, is_inside_code_block,
              current_block, block_elements, doc_pc, table_src>>
hd_vars == <<hd_line, hd_i, heading_level, overflow_checks, hd_block, hd_pc>>
vars == <<tok_vars, inl_vars, doc_vars, hd_vars>>

(***************************************************************************)
(* Bounds                                                                  *)
(***************************************************************************)
MaxLineLen == 4
MaxTokens == 5
MaxLabel == 3
MaxDocLines == 4
MaxCols == 3
MaxBodyRows == 2
MaxHashes == 257
MaxCallTokens == 3

(***************************************************************************)
(* Tokens (types.rs, enum Token).  Every token is a record of one shape:    *)
(* type, string payload s (a sequence of graphemes), run length n.          *)
(***************************************************************************)
Text(s) == [type |-> "Text", s |-> s, n |-> 0]
EmphasisRun(delimiter, length) == [type |-> "EmphasisRun", s |-> <<delimiter>>, n |-> length]
Punctuation(g) == [type |-> "Punctuation", s |-> <<g>>, n |-> 0]
OrderedListMarker(s) == [type |-> "OrderedListMarker", s |-> s, n |-> 0]
Escape(g) == [type |-> "Escape", s |-> <<g>>, n |-> 0]
OpenBracket == [type |-> "OpenBracket", s |-> <<>>, n |-> 0]
CloseBracket == [type |-> "CloseBracket", s |-> <<>>, n |-> 0]
OpenParenthesis == [type |-> "OpenParenthesis", s |-> <<>>, n |-> 0]
CloseParenthesis == [type |-> "CloseParenthesis", s |-> <<>>, n |-> 0]
Whitespace == [type |-> "Whitespace", s |-> <<>>, n |-> 0]
CodeTick == [type |-> "CodeTick", s |-> <<>>, n |-> 0]
CodeFence == [type |-> "CodeFence", s |-> <<>>, n |-> 0]
ThematicBreak == [type |-> "ThematicBreak", s |-> <<>>, n |-> 0]
Tab == [type |-> "Tab", s |-> <<>>, n |-> 0]
Newline == [type |-> "Newline", s |-> <<>>, n |-> 0]

\* impl From<String> for Token
TokenFromString(s) == Text(s)

(***************************************************************************)
(* utils.rs                                                                *)
(***************************************************************************)
\* The collection after push_buffer_to_collection; the buffer is empty afterwards.
push_buffer_to_collection(collection, buf, From(_)) ==
    IF buf # <<>> THEN Append(collection, From(buf)) ELSE collection

(***************************************************************************)
(* Graphemes                                                               *)
(***************************************************************************)
\* The grapheme U+0060 (a string literal cannot hold it)
Backtick == "BACKTICK"

Digits == {"0", "1", "2", "3", "4", "5", "6", "7", "8", "9"}

\* The graphemes of Unicode category P* (char::is_punctuation) or Sc
\* (char::is_symbol_currency) in the tables of Unicode 8.0, from which the
\* unicode_categories crate is generated.  A grapheme of ASCII is written as
\* itself, any other grapheme by its code point.  "+", "<", "=", ">", "^", "|",
\* "~" and the backtick are of category Sm or Sk and are not among them.
AsciiPunctuation ==
    {"!", "\"", "#", "%", "&", "'", "(", ")", "*", ",", "-", ".", "/", ":", ";", "?",
     "@", "[", "\\", "]", "_", "{", "}", "$"}

\* U+3002 as lexer/test.rs 178-188 has it
NamedPunctuation == {"IdeographicFullStop"}

CodePointPunctuation ==
    {"U+00A1", "U+00A2", "U+00A3", "U+00A4", "U+00A5", "U+00A7", "U+00AB", "U+00B6",
     "U+00B7", "U+00BB", "U+00BF", "U+037E", "U+0387", "U+055A", "U+055B", "U+055C",
     "U+055D", "U+055E", "U+055F", "U+0589", "U+058A", "U+058F", "U+05BE", "U+05C0",
     "U+05C3", "U+05C6", "U+05F3", "U+05F4", "U+0609", "U+060A", "U+060B", "U+060C",
     "U+060D", "U+061B", "U+061E", "U+061F", "U+066A", "U+066B", "U+066C", "U+066D",
     "U+06D4", "U+0700", "U+0701", "U+0702", "U+0703", "U+0704", "U+0705", "U+0706",
     "U+0707", "U+0708", "U+0709", "U+070A", "U+070B", "U+070C", "U+070D", "U+07F7",
     "U+07F8", "U+07F9", "U+0830", "U+0831", "U+0832", "U+0833", "U+0834", "U+0835",
     "U+0836", "U+0837", "U+0838", "U+0839", "U+083A", "U+083B", "U+083C", "U+083D",
     "U+083E", "U+085E", "U+0964", "U+0965", "U+0970", "U+09F2", "U+09F3", "U+09FB",
     "U+0AF0", "U+0AF1", "U+0BF9", "U+0DF4", "U+0E3F", "U+0E4F", "U+0E5A", "U+0E5B",
     "U+0F04", "U+0F05", "U+0F06", "U+0F07", "U+0F08", "U+0F09", "U+0F0A", "U+0F0B",
     "U+0F0C", "U+0F0D", "U+0F0E", "U+0F0F", "U+0F10", "U+0F11", "U+0F12", "U+0F14",
     "U+0F3A", "U+0F3B", "U+0F3C", "U+0F3D", "U+0F85", "U+0FD0", "U+0FD1", "U+0FD2",
     "U+0FD3", "U+0FD4", "U+0FD9", "U+0FDA", "U+104A", "U+104B", "U+104C", "U+104D",
     "U+104E", "U+104F", "U+10FB", "U+1360", "U+1361", "U+1362", "U+1363", "U+1364",
     "U+1365", "U+1366", "U+1367", "U+1368", "U+1400", "U+166D", "U+166E", "U+169B",
     "U+169C", "U+16EB", "U+16EC", "U+16ED", "U+1735", "U+1736", "U+17D4", "U+17D5",
     "U+17D6", "U+17D8", "U+17D9", "U+17DA", "U+17DB", "U+1800", "U+1801", "U+1802",
     "U+1803", "U+1804", "U+1805", "U+1806", "U+1807", "U+1808", "U+1809", "U+180A",
     "U+1944", "U+1945", "U+1A1E", "U+1A1F", "U+1AA0", "U+1AA1", "U+1AA2", "U+1AA3",
     "U+1AA4", "U+1AA5", "U+1AA6", "U+1AA8", "U+1AA9", "U+1AAA", "U+1AAB", "U+1AAC",
     "U+1AAD", "U+1B5A", "U+1B5B", "U+1B5C", "U+1B5D", "U+1B5E", "U+1B5F", "U+1B60",
     "U+1BFC", "U+1BFD", "U+1BFE", "U+1BFF", "U+1C3B", "U+1C3C", "U+1C3D", "U+1C3E",
     "U+1C3F", "U+1C7E", "U+1C7F", "U+1CC0", "U+1CC1", "U+1CC2", "U+1CC3", "U+1CC4",
     "U+1CC5", "U+1CC6", "U+1CC7", "U+1CD3", "U+2010", "U+2011", "U+2012", "U+2013",
     "U+2014", "U+2015", "U+2016", "U+2017", "U+2018", "U+2019", "U+201A", "U+201B",
     "U+201C", "U+201D", "U+201E", "U+201F", "U+2020", "U+2021", "U+2022", "U+2023",
     "U+2024", "U+2025", "U+2026", "U+2027", "U+2030", "U+2031", "U+2032", "U+2033",
     "U+2034", "U+2035", "U+2036", "U+2037", "U+2038", "U+2039", "U+203A", "U+203B",
     "U+203C", "U+203D", "U+203E", "U+203F", "U+2040", "U+2041", "U+2042", "U+2043",
     "U+2045", "U+2046", "U+2047", "U+2048", "U+2049", "U+204A", "U+204B", "U+204C",
     "U+204D", "U+204E", "U+204F", "U+2050", "U+2051", "U+2053", "U+2054", "U+2055",
     "U+2056", "U+2057", "U+2058", "U+2059", "U+205A", "U+205B", "U+205C", "U+205D",
     "U+205E", "U+207D", "U+207E", "U+208D", "U+208E", "U+20A0", "U+20A1", "U+20A2",
     "U+20A3", "U+20A4", "U+20A5", "U+20A6", "U+20A7", "U+20A8", "U+20A9", "U+20AA",
     "U+20AB", "U+20AC", "U+20AD", "U+20AE", "U+20AF", "U+20B0", "U+20B1", "U+20B2",
     "U+20B3", "U+20B4", "U+20B5", "U+20B6", "U+20B7", "U+20B8", "U+20B9", "U+20BA",
     "U+20BB", "U+20BC", "U+20BD", "U+20BE", "U+2308", "U+2309", "U+230A", "U+230B",
     "U+2329", "U+232A", "U+2768", "U+2769", "U+276A", "U+276B", "U+276C", "U+276D",
     "U+276E", "U+276F", "U+2770", "U+2771", "U+2772", "U+2773", "U+2774", "U+2775",
     "U+27C5", "U+27C6", "U+27E6", "U+27E7", "U+27E8", "U+27E9", "U+27EA", "U+27EB",
     "U+27EC", "U+27ED", "U+27EE", "U+27EF", "U+2983", "U+2984", "U+2985", "U+2986",
     "U+2987", "U+2988", "U+2989", "U+298A", "U+298B", "U+298C", "U+298D", "U+298E",
     "U+298F", "U+2990", "U+2991", "U+2992", "U+2993", "U+2994", "U+2995", "U+2996",
     "U+2997", "U+2998", "U+29D8", "U+29D9", "U+29DA", "U+29DB", "U+29FC", "U+29FD",
     "U+2CF9", "U+2CFA", "U+2CFB", "U+2CFC", "U+2CFE", "U+2CFF", "U+2D70", "U+2E00",
     "U+2E01", "U+2E02", "U+2E03", "U+2E04", "U+2E05", "U+2E06", "U+2E07", "U+2E08",
     "U+2E09", "U+2E0A", "U+2E0B", "U+2E0C", "U+2E0D", "U+2E0E", "U+2E0F", "U+2E10",
     "U+2E11", "U+2E12", "U+2E13", "U+2E14", "U+2E15", "U+2E16", "U+2E17", "U+2E18",
     "U+2E19", "U+2E1A", "U+2E1B", "U+2E1C", "U+2E1D", "U+2E1E", "U+2E1F", "U+2E20",
     "U+2E21", "U+2E22", "U+2E23", "U+2E24", "U+2E25", "U+2E26", "U+2E27", "U+2E28",
     "U+2E29", "U+2E2A", "U+2E2B", "U+2E2C", "U+2E2D", "U+2E2E", "U+2E30", "U+2E31",
     "U+2E32", "U+2E33", "U+2E34", "U+2E35", "U+2E36", "U+2E37", "U+2E38", "U+2E39",
     "U+2E3A", "U+2E3B", "U+2E3C", "U+2E3D", "U+2E3E", "U+2E3F", "U+2E40", "U+2E41",
     "U+2E42", "U+3001", "U+3002", "U+3003", "U+3008", "U+3009", "U+300A", "U+300B",
     "U+300C", "U+300D", "U+300E", "U+300F", "U+3010", "U+3011", "U+3014", "U+3015",
     "U+3016", "U+3017", "U+3018", "U+3019", "U+301A", "U+301B", "U+301C", "U+301D",
     "U+301E", "U+301F", "U+3030", "U+303D", "U+30A0", "U+30FB", "U+A4FE", "U+A4FF",
     "U+A60D", "U+A60E", "U+A60F", "U+A673", "U+A67E", "U+A6F2", "U+A6F3", "U+A6F4",
     "U+A6F5", "U+A6F6", "U+A6F7", "U+A838", "U+A874", "U+A875", "U+A876", "U+A877",
     "U+A8CE", "U+A8CF", "U+A8F8", "U+A8F9", "U+A8FA", "U+A8FC", "U+A92E", "U+A92F",
     "U+A95F", "U+A9C1", "U+A9C2", "U+A9C3", "U+A9C4", "U+A9C5", "U+A9C6", "U+A9C7",
     "U+A9C8", "U+A9C9", "U+A9CA", "U+A9CB", "U+A9CC", "U+A9CD", "U+A9DE", "U+A9DF",
     "U+AA5C", "U+AA5D", "U+AA5E", "U+AA5F", "U+AADE", "U+AADF", "U+AAF0", "U+AAF1",
     "U+ABEB", "U+FD3E", "U+FD3F", "U+FDFC", "U+FE10", "U+FE11", "U+FE12", "U+FE13",
     "U+FE14", "U+FE15", "U+FE16", "U+FE17", "U+FE18", "U+FE19", "U+FE30", "U+FE31",
     "U+FE32", "U+FE33", "U+FE34", "U+FE35", "U+FE36", "U+FE37", "U+FE38", "U+FE39",
     "U+FE3A", "U+FE3B", "U+FE3C", "U+FE3D", "U+FE3E", "U+FE3F", "U+FE40", "U+FE41",
     "U+FE42", "U+FE43", "U+FE44", "U+FE45", "U+FE46", "U+FE47", "U+FE48", "U+FE49",
     "U+FE4A", "U+FE4B", "U+FE4C", "U+FE4D", "U+FE4E", "U+FE4F", "U+FE50", "U+FE51",
     "U+FE52", "U+FE54", "U+FE55", "U+FE56", "U+FE57", "U+FE58", "U+FE59", "U+FE5A",
     "U+FE5B", "U+FE5C", "U+FE5D", "U+FE5E", "U+FE5F", "U+FE60", "U+FE61", "U+FE63",
     "U+FE68", "U+FE69", "U+FE6A", "U+FE6B", "U+FF01", "U+FF02", "U+FF03", "U+FF04",
     "U+FF05", "U+FF06", "U+FF07", "U+FF08", "U+FF09", "U+FF0A", "U+FF0C", "U+FF0D",
     "U+FF0E", "U+FF0F", "U+FF1A", "U+FF1B", "U+FF1F", "U+FF20", "U+FF3B", "U+FF3C",
     "U+FF3D", "U+FF3F", "U+FF5B", "U+FF5D", "U+FF5F", "U+FF60", "U+FF61", "U+FF62",
     "U+FF63", "U+FF64", "U+FF65", "U+FFE0", "U+FFE1", "U+FFE5", "U+FFE6", "U+10100",
     "U+10101", "U+10102", "U+1039F", "U+103D0", "U+1056F", "U+10857", "U+1091F", "U+1093F",
     "U+10A50", "U+10A51", "U+10A52", "U+10A53", "U+10A54", "U+10A55", "U+10A56", "U+10A57",
     "U+10A58", "U+10A7F", "U+10AF0", "U+10AF1", "U+10AF2", "U+10AF3", "U+10AF4", "U+10AF5",
     "U+10AF6", "U+10B39", "U+10B3A", "U+10B3B", "U+10B3C", "U+10B3D", "U+10B3E", "U+10B3F",
     "U+10B99", "U+10B9A", "U+10B9B", "U+10B9C", "U+11047", "U+11048", "U+11049", "U+1104A",
     "U+1104B", "U+1104C", "U+1104D", "U+110BB", "U+110BC", "U+110BE", "U+110BF", "U+110C0",
     "U+110C1", "U+11140", "U+11141", "U+11142", "U+11143", "U+11174", "U+11175", "U+111C5",
     "U+111C6", "U+111C7", "U+111C8", "U+111C9", "U+111CD", "U+111DB", "U+111DD", "U+111DE",
     "U+111DF", "U+11238", "U+11239", "U+1123A", "U+1123B", "U+1123C", "U+1123D", "U+112A9",
     "U+114C6", "U+115C1", "U+115C2", "U+115C3", "U+115C4", "U+115C5", "U+115C6", "U+115C7",
     "U+115C8", "U+115C9", "U+115CA", "U+115CB", "U+115CC", "U+115CD", "U+115CE", "U+115CF",
     "U+115D0", "U+115D1", "U+115D2", "U+115D3", "U+115D4", "U+115D5", "U+115D6", "U+115D7",
     "U+11641", "U+11642", "U+11643", "U+1173C", "U+1173D", "U+1173E", "U+12470", "U+12471",
     "U+12472", "U+12473", "U+12474", "U+16A6E", "U+16A6F", "U+16AF5", "U+16B37", "U+16B38",
     "U+16B39", "U+16B3A", "U+16B3B", "U+16B44", "U+1BC9F", "U+1DA87", "U+1DA88", "U+1DA89",
     "U+1DA8A", "U+1DA8B"}

PunctuationGraphemes == AsciiPunctuation \cup NamedPunctuation \cup CodePointPunctuation

\* lexer.rs is_punctuation: one char that is punctuation or a currency symbol
is_punctuation_grapheme(g) == g \in PunctuationGraphemes

\* The value of an index past the end of the line (a panicking read in the source)
OutOfLine == "<out of line>"

(***************************************************************************)
(* tokenize (lexer.rs 24-169), one loop iteration at a time.                *)
(* A tokenizer state is [chars, i, tokens, buffer, reads, pc].              *)
(***************************************************************************)
str_len(st) == Len(st.chars)

\* The bounds guard of a look-ahead: i + n < str_len
InLineMutant(st, k) == TRUE
InLine(st, k) == k < str_len(st)

\* chars[k] (0-based)
At(st, k) == IF k >= 0 /\ k < str_len(st) THEN st.chars[k + 1] ELSE OutOfLine

\* i + n < str_len && chars[i+1] == pat[1] && ... && chars[i+n] == pat[n]
AheadMatches(st, pat) ==
    /\ InLine(st, st.i + Len(pat))
    /\ \A k \in 1..Len(pat) : At(st, st.i + k) = pat[k]

\* the indices that short-circuit evaluation of that condition reads
AheadReads(st, pat) ==
    IF InLine(st, st.i + Len(pat))
    THEN {st.i + k : k \in {k \in 1..Len(pat) :
                              \A m \in 1..(k - 1) : At(st, st.i + m) = pat[m]}}
    ELSE {}

\* lexer.rs 44-47: the forward scan for a maximal run of the delimiter
RECURSIVE RunLength(_, _)
RunLength(st, run_length) ==
    IF InLine(st, st.i + run_length) /\ At(st, st.i + run_length) = At(st, st.i)
    THEN RunLength(st, run_length + 1)
    ELSE run_length

RunReads(st, run_length) ==
    {k \in (st.i + 1)..(st.i + run_length) : InLine(st, k)}

\* The state after one iteration that read rd, left toks and buf and moved to ni.
Iterate(st, toks, buf, ni, rd) ==
    IF \E k \in rd \cup {st.i} : k >= str_len(st)
    THEN [st EXCEPT !.reads = rd \cup {st.i}, !.pc = "panic"]
    ELSE [st EXCEPT !.tokens = toks, !.buffer = buf, !.i = ni, !.reads = rd \cup {st.i}]

Flushed(st) == push_buffer_to_collection(st.tokens, st.buffer, TokenFromString)

\* the emphasis arm, lexer.rs 39-55
ArmEmphasis(st) ==
    LET run_length == RunLength(st, 1)
    IN Iterate(st, Append(Flushed(st), EmphasisRun(At(st, st.i), run_length)), <<>>,
               st.i + (run_length - 1) + 1, RunReads(st, run_length))

\* the backtick arm, lexer.rs 56-65
ArmBacktick(st) ==
    IF AheadMatches(st, <<Backtick, Backtick>>)
    THEN Iterate(st, Append(Flushed(st), CodeFence), <<>>, st.i + 2 + 1,
                 AheadReads(st, <<Backtick, Backtick>>))
    ELSE Iterate(st, Append(Flushed(st), CodeTick), <<>>, st.i + 1,
                 AheadReads(st, <<Backtick, Backtick>>))

\* the backslash arm, lexer.rs 66-75
ArmBackslash(st) ==
    IF InLine(st, st.i + 1)
    THEN Iterate(st, Append(Flushed(st), Escape(At(st, st.i + 1))), <<>>, st.i + 1 + 1,
                 {st.i + 1})
    ELSE Iterate(st, Flushed(st), <<At(st, st.i)>>, st.i + 1, {})

\* the dash arm, lexer.rs 76-86
ArmDash(st) ==
    IF AheadMatches(st, <<"-", "-">>)
    THEN Iterate(st, Append(Flushed(st), ThematicBreak), <<>>, st.i + 2 + 1,
                 AheadReads(st, <<"-", "-">>))
    ELSE Iterate(st, Append(Flushed(st), Punctuation(At(st, st.i))), <<>>, st.i + 1,
                 AheadReads(st, <<"-", "-">>))

\* the bracket and parenthesis arms, lexer.rs 87-106
BracketToken(g) ==
    CASE g = "[" -> OpenBracket
      [] g = "]" -> CloseBracket
      [] g = "(" -> OpenParenthesis
      [] OTHER -> CloseParenthesis

ArmBracket(st) ==
    Iterate(st, Append(Flushed(st), BracketToken(At(st, st.i))), <<>>, st.i + 1, {})

\* tokens.last() == Some(&Token::Tab)
LastIsTab(toks) == toks # <<>> /\ toks[Len(toks)] = Tab

\* the digit arm, lexer.rs 107-125
ArmDigitMutant(st) ==
    IF AheadMatches(st, <<".", " ">>) /\ (st.i = 0 \/ LastIsTab(st.tokens))
    THEN Iterate(st,
                 Append(Flushed(st), OrderedListMarker(<<At(st, st.i), At(st, st.i + 1)>>)),
                 <<>>, st.i + 3, AheadReads(st, <<".", " ">>))
    ELSE Iterate(st, st.tokens, Append(st.buffer, At(st, st.i)), st.i + 1,
                 AheadReads(st, <<".", " ">>))
ArmDigit(st) ==
    IF AheadMatches(st, <<".", " ">>) /\ (st.i = 0 \/ LastIsTab(st.tokens))
    THEN Iterate(st,
                 Append(Flushed(st), OrderedListMarker(<<At(st, st.i), At(st, st.i + 1)>>)),
                 <<>>, st.i + 2, AheadReads(st, <<".", " ">>))
    ELSE Iterate(st, st.tokens, Append(st.buffer, At(st, st.i)), st.i + 1,
                 AheadReads(st, <<".", " ">>))

\* the tab arm, lexer.rs 126-130
ArmTab(st) ==
    Iterate(st, Append(Flushed(st), Tab), <<>>, st.i + 1, {})

\* the space arm, lexer.rs 131-147
ArmSpace(st) ==
    IF AheadMatches(st, <<" ", " ", " ">>)
    THEN Iterate(st, Append(Flushed(st), Tab), <<>>, st.i + 4,
                 AheadReads(st, <<" ", " ", " ">>))
    ELSE Iterate(st, Append(Flushed(st), Whitespace), <<>>, st.i + 1,
                 AheadReads(st, <<" ", " ", " ">>))

\* the newline arm, lexer.rs 148-152
ArmNewline(st) ==
    Iterate(st, Append(Flushed(st), Newline), <<>>, st.i + 1, {})

\* the is_punctuation arm, lexer.rs 155-158
ArmPunctuation(st) ==
    Iterate(st, Append(Flushed(st), Punctuation(At(st, st.i))), <<>>, st.i + 1, {})

\* the default arm, lexer.rs 159
ArmText(st) ==
    Iterate(st, st.tokens, Append(st.buffer, At(st, st.i)), st.i + 1, {})

\* The arm of the match that chars[i] selects
ArmOf(g) ==
    CASE g \in {"*", "_"} -> "emphasis"
      [] g = Backtick -> "backtick"
      [] g = "\\" -> "backslash"
      [] g = "-" -> "dash"
      [] g \in {"[", "]", "(", ")"} -> "bracket"
      [] g \in Digits -> "digit"
      [] g = "\t" -> "tab"
      [] g = " " -> "space"
      [] g = "\n" -> "newline"
      [] is_punctuation_grapheme(g) -> "punctuation"
      [] OTHER -> "text"

\* lexer.rs 25-36: the state before the first iteration
TokenizeStart(line) ==
    IF line = <<>>
    THEN [chars |-> line, i |-> 0, tokens |-> <<Newline>>, buffer |-> <<>>,
          reads |-> {}, pc |-> "done"]
    ELSE [chars |-> line, i |-> 0, tokens |-> <<>>, buffer |-> <<>>,
          reads |-> {}, pc |-> "scan"]

\* lexer.rs 37-163: one iteration of the while loop
TokenizeIteration(st) ==
    LET arm == ArmOf(At(st, st.i))
    IN CASE arm = "emphasis" -> ArmEmphasis(st)
         [] arm = "backtick" -> ArmBacktick(st)
         [] arm = "backslash" -> ArmBackslash(st)
         [] arm = "dash" -> ArmDash(st)
         [] arm = "bracket" -> ArmBracket(st)
         [] arm = "digit" -> ArmDigit(st)
         [] arm = "tab" -> ArmTab(st)
         [] arm = "space" -> ArmSpace(st)
         [] arm = "newline" -> ArmNewline(st)
         [] arm = "punctuation" -> ArmPunctuation(st)
         [] OTHER -> ArmText(st)

\* lexer.rs 165-168: the final flush
TokenizeEndMutant(st) ==
    [st EXCEPT !.tokens = Append(Flushed(st), Newline), !.buffer = <<>>, !.reads = {},
               !.pc = "done"]
TokenizeEnd(st) ==
    [st EXCEPT !.tokens = Flushed(st), !.buffer = <<>>, !.reads = {}, !.pc = "done"]

RECURSIVE TokenizeFrom(_)
TokenizeFrom(st) ==
    IF st.pc # "scan" THEN st
    ELSE IF st.i < str_len(st) THEN TokenizeFrom(TokenizeIteration(st))
    ELSE TokenizeEnd(st)

\* tokenize(markdown_line), for a line on which it returns
tokenize(line) == TokenizeFrom(TokenizeStart(line)).tokens


(***************************************************************************)
(* Inline elements (types.rs, enum MdInlineElement), records of one shape:  *)
(* content is the string of Text and Code and the alt_text of Image;        *)
(* children is the content of Bold and Italic and the text of Link;         *)
(* title is empty for None.                                                 *)
(***************************************************************************)
TextEl(s) == [kind |-> "Text", content |-> s, children |-> <<>>, title |-> <<>>, url |-> <<>>]
CodeEl(s) == [kind |-> "Code", content |-> s, children |-> <<>>, title |-> <<>>, url |-> <<>>]
Bold(c) == [kind |-> "Bold", content |-> <<>>, children |-> c, title |-> <<>>, url |-> <<>>]
Italic(c) == [kind |-> "Italic", content |-> <<>>, children |-> c, title |-> <<>>, url |-> <<>>]
Link(text, title, url) ==
    [kind |-> "Link", content |-> <<>>, children |-> text, title |-> title, url |-> url]
Image(alt_text, title, url) ==
    [kind |-> "Image", content |-> alt_text, children |-> <<>>, title |-> title, url |-> url]
Placeholder == [kind |-> "Placeholder", content |-> <<>>, children |-> <<>>,
                title |-> <<>>, url |-> <<>>]

\* impl From<String> for MdInlineElement
InlineFromString(s) == TextEl(s)

\* parser.rs 597-611
RECURSIVE flatten_inline(_)
flatten_inline(elements) ==
    IF elements = <<>> THEN <<>>
    ELSE LET element == Head(elements)
             piece == CASE element.kind = "Text" -> element.content
                        [] element.kind = "Bold" -> flatten_inline(element.children)
                        [] element.kind = "Italic" -> flatten_inline(element.children)
                        [] element.kind = "Code" -> element.content
                        [] element.kind = "Link" -> flatten_inline(element.children)
                        [] element.kind = "Image" -> element.content
                        [] OTHER -> <<>>
         IN piece \o flatten_inline(Tail(elements))

\* ch.to_string().repeat(n)
RECURSIVE Repeat(_, _)
Repeat(ch, n) == IF n <= 0 THEN <<>> ELSE <<ch>> \o Repeat(ch, n - 1)

\* elements[a..b] with 0-based, end-exclusive bounds (in range)
Slice(v, a, b) == SubSeq(v, a + 1, b)

\* elements.splice(a..=b, vec![e]) (in range)
Splice(v, a, b, e) == SubSeq(v, 1, a) \o <<e>> \o SubSeq(v, b + 2, Len(v))

(***************************************************************************)
(* Delimiter (types.rs 476-542)                                            *)
(***************************************************************************)
Delimiter(ch, run_length, token_position, parsed_position) ==
    [ch |-> ch, run_length |-> run_length, token_position |-> token_position,
     parsed_position |-> parsed_position, active |-> TRUE,
     can_open |-> TRUE, can_close |-> TRUE]

\* types.rs 548-550
is_whitespace(token) == token.type \in {"Newline", "Whitespace"}

\* types.rs 556-569
is_punctuation(token) ==
    token.type \in {"Punctuation", "EmphasisRun", "OpenBracket", "CloseBracket",
                    "OpenParenthesis", "CloseParenthesis"}

\* types.rs 498-541
classify_flankingMutant(d, toks) ==
    LET has_before == d.token_position > 0
        has_after == d.token_position + 1 < Len(toks)
        before == toks[d.token_position]
        after == toks[d.token_position + 2]
        followed_by_whitespace == (~has_after) \/ is_whitespace(after)
        followed_by_punctuation == has_after /\ is_punctuation(after)
        preceded_by_whitespace == (~has_before) \/ is_whitespace(before)
        preceded_by_punctuation == has_before /\ is_punctuation(before)
        is_left_flanking ==
            IF followed_by_whitespace THEN FALSE
            ELSE IF ~followed_by_punctuation THEN TRUE
            ELSE preceded_by_whitespace \/ preceded_by_punctuation
        is_right_flanking ==
            IF preceded_by_whitespace THEN FALSE
            ELSE IF ~preceded_by_punctuation THEN TRUE
            ELSE followed_by_whitespace \/ followed_by_punctuation
    IN IF d.ch = "_"
       THEN [d EXCEPT
               !.can_open = is_left_flanking /\ (~is_right_flanking \/ followed_by_punctuation),
               !.can_close = is_right_flanking]
       ELSE [d EXCEPT !.can_open = is_left_flanking, !.can_close = is_right_flanking]
classify_flanking(d, toks) ==
    LET has_before == d.token_position > 0
        has_after == d.token_position + 1 < Len(toks)
        before == toks[d.token_position]
        after == toks[d.token_position + 2]
        followed_by_whitespace == (~has_after) \/ is_whitespace(after)
        followed_by_punctuation == has_after /\ is_punctuation(after)
        preceded_by_whitespace == (~has_before) \/ is_whitespace(before)
        preceded_by_punctuation == has_before /\ is_punctuation(before)
        is_left_flanking ==
            IF followed_by_whitespace THEN FALSE
            ELSE IF ~followed_by_punctuation THEN TRUE
            ELSE preceded_by_whitespace \/ preceded_by_punctuation
        is_right_flanking ==
            IF preceded_by_whitespace THEN FALSE
            ELSE IF ~preceded_by_punctuation THEN TRUE
            ELSE followed_by_whitespace \/ followed_by_punctuation
    IN IF d.ch = "_"
       THEN [d EXCEPT
               !.can_open = is_left_flanking /\ (~is_right_flanking \/ followed_by_punctuation),
               !.can_close = is_right_flanking /\ (~is_left_flanking \/ followed_by_punctuation)]
       ELSE [d EXCEPT !.can_open = is_left_flanking, !.can_close = is_right_flanking]

(***************************************************************************)
(* resolve_emphasis (parser.rs 620-729), one loop iteration at a time.      *)
(* A resolver state is [elements, delimiter_stack, i, j, closer, pc] with   *)
(* pc one of "start", "outer", "inner", "final", "done", "panic".           *)
(***************************************************************************)
NoDelimiter == Delimiter("", 0, 0, 0)

ResolveStart(elements, stack) ==
    [elements |-> elements, delimiter_stack |-> stack,
     i |-> 0, j |-> 0, closer |-> NoDelimiter, pc |-> "start"]

\* parser.rs 621-629: a single delimiter cannot be resolved to emphasis
ResolveSingle(rs) ==
    LET d == rs.delimiter_stack[1]
    IN IF ~d.active THEN [rs EXCEPT !.pc = "done"]
       ELSE IF d.parsed_position >= Len(rs.elements) THEN [rs EXCEPT !.pc = "panic"]
       ELSE [rs EXCEPT !.elements[d.parsed_position + 1] = TextEl(<<d.ch>>),
                       !.pc = "done"]

\* parser.rs 631-637: the head of the outer loop
ResolveOuter(rs) ==
    IF rs.i >= Len(rs.delimiter_stack) THEN [rs EXCEPT !.pc = "final"]
    ELSE LET d == rs.delimiter_stack[rs.i + 1]
         IN IF ~d.active \/ ~d.can_close
            THEN [rs EXCEPT !.i = rs.i + 1]
            ELSE [rs EXCEPT !.closer = d, !.j = rs.i - 1, !.pc = "inner"]

\* parser.rs 651-660: the rule of three
RuleOfThree(cl, opener) ==
    LET length_total == cl.run_length + opener.run_length
    IN /\ (cl.can_open /\ cl.can_close) \/ (opener.can_open /\ opener.can_close)
       /\ length_total % 3 = 0
       /\ cl.run_length % 3 # 0
       /\ opener.run_length % 3 # 0

\* parser.rs 663-667
DelimitersUsed(cl, opener) ==
    IF cl.run_length >= 2 /\ opener.run_length >= 2 THEN 2 ELSE 1

\* parser.rs 670-674
RangeStart(opener, delimiters_used) ==
    IF opener.run_length > delimiters_used
    THEN opener.parsed_position + 1
    ELSE opener.parsed_position

\* parser.rs 676-680
RangeEnd(cl, delimiters_used) ==
    IF cl.run_length >= delimiters_used
    THEN cl.parsed_position
    ELSE cl.parsed_position + 1

\* usize::saturating_sub
saturating_sub(a, b) == IF a >= b THEN a - b ELSE 0

\* parser.rs 699-703: renumber the delimiters that lay after the closer
Renumber(stack, cl, num_elements_removed) ==
    [k \in 1..Len(stack) |->
        IF stack[k].parsed_position > cl.parsed_position
        THEN [stack[k] EXCEPT
                !.parsed_position = stack[k].parsed_position - num_elements_removed]
        ELSE stack[k]]

\* parser.rs 705-717: consume the characters used and deactivate emptied runs
Consume(d, delimiters_used) ==
    LET left == saturating_sub(d.run_length, delimiters_used)
    IN [d EXCEPT !.run_length = left, !.active = IF left = 0 THEN FALSE ELSE d.active]

\* parser.rs 662-717: pair the (cloned) closer with the opener at index j
ResolvePair(rs, opener) ==
    LET cl == rs.closer
        delimiters_used == DelimitersUsed(cl, opener)
        range_start == RangeStart(opener, delimiters_used)
        range_end == RangeEnd(cl, delimiters_used)
        len == Len(rs.elements)
        slice_ok == range_start + 1 <= range_end /\ range_end <= len
        splice_ok == range_start <= range_end + 1 /\ range_end + 1 <= len
        inner == Slice(rs.elements, range_start + 1, range_end)
        element_to_insert == IF delimiters_used = 2 THEN Bold(inner) ELSE Italic(inner)
        num_elements_removed == range_end - range_start
        renumbered == Renumber(rs.delimiter_stack, cl, num_elements_removed)
    IN IF ~slice_ok \/ ~splice_ok THEN [rs EXCEPT !.pc = "panic"]
       ELSE [rs EXCEPT
               !.elements = Splice(rs.elements, range_start, range_end, element_to_insert),
               !.delimiter_stack =
                   [k \in 1..Len(renumbered) |->
                       IF k = rs.i + 1 \/ k = rs.j + 1
                       THEN Consume(renumbered[k], delimiters_used)
                       ELSE renumbered[k]],
               !.j = rs.j - 1]

\* parser.rs 639-718: one iteration of the backward scan for openers
ResolveInner(rs) ==
    IF rs.j < 0 THEN [rs EXCEPT !.i = rs.i + 1, !.pc = "outer"]
    ELSE LET opener == rs.delimiter_stack[rs.j + 1]
         IN IF ~opener.active \/ ~opener.can_open THEN [rs EXCEPT !.j = rs.j - 1]
            ELSE IF rs.closer.ch # opener.ch THEN [rs EXCEPT !.j = rs.j - 1]
            ELSE IF RuleOfThree(rs.closer, opener) THEN [rs EXCEPT !.j = rs.j - 1]
            ELSE ResolvePair(rs, opener)

\* parser.rs 721-728: the delimiters still active become Text of their character
RECURSIVE ReplaceActive(_, _, _)
ReplaceActive(elements, stack, k) ==
    IF k > Len(stack) THEN elements
    ELSE LET el == stack[k]
         IN IF el.active /\ el.parsed_position < Len(elements)
            THEN ReplaceActive([elements EXCEPT ![el.parsed_position + 1] = TextEl(<<el.ch>>)],
                               stack, k + 1)
            ELSE ReplaceActive(elements, stack, k + 1)

ResolveFinal(rs) ==
    [rs EXCEPT !.elements = ReplaceActive(rs.elements, rs.delimiter_stack, 1),
               !.pc = "done"]

\* one step of resolve_emphasis
ResolveStep(rs) ==
    CASE rs.pc = "start" ->
            IF Len(rs.delimiter_stack) = 1 THEN ResolveSingle(rs)
            ELSE [rs EXCEPT !.pc = "outer"]
      [] rs.pc = "outer" -> ResolveOuter(rs)
      [] rs.pc = "inner" -> ResolveInner(rs)
      [] rs.pc = "final" -> ResolveFinal(rs)
      [] OTHER -> rs

RECURSIVE ResolveFrom(_)
ResolveFrom(rs) == IF rs.pc \in {"done", "panic"} THEN rs ELSE ResolveFrom(ResolveStep(rs))

\* resolve_emphasis(elements, delimiter_stack): the final resolver state
resolve_emphasis(elements, stack) ==
    ResolveFrom(ResolveStart(elements, stack))


(***************************************************************************)
(* TokenCursor (types.rs 394-459): a token vector and current_position      *)
(***************************************************************************)
HasToken(toks, pos) == pos < Len(toks)
TokenAt(toks, pos) == toks[pos + 1]
IsAt(toks, pos, type) == HasToken(toks, pos) /\ TokenAt(toks, pos).type = type

\* types.rs 429-433
advanceMutant(toks, pos) == pos + 1
advance(toks, pos) == IF pos < Len(toks) THEN pos + 1 ELSE pos

\* types.rs 401-403: tokens.get(current_position), NoToken for None
NoToken == [type |-> "None", s |-> <<>>, n |-> 0]
current(toks, pos) == IF pos + 1 \in DOMAIN toks THEN toks[pos + 1] ELSE NoToken

\* types.rs 456-458
is_at_eof(toks, pos) == pos >= Len(toks)

\* types.rs 442-448: the position is set when it is below tokens.len(), to an
\* earlier position too; any other position panics.  No code of src/ calls it.
_set_position(toks, current_position, pos) ==
    IF pos < Len(toks) THEN [current_position |-> pos, panic |-> FALSE]
    ELSE [current_position |-> current_position, panic |-> TRUE]

(***************************************************************************)
(* parse_code_span (parser.rs 424-451)                                     *)
(***************************************************************************)
CodeSpanText(t) ==
    CASE t.type \in {"Text", "Punctuation", "OrderedListMarker"} -> t.s
      [] t.type = "Escape" -> <<"\\">> \o t.s
      [] t.type = "OpenParenthesis" -> <<"(">>
      [] t.type = "CloseParenthesis" -> <<")">>
      [] t.type = "OpenBracket" -> <<"[">>
      [] t.type = "CloseBracket" -> <<"]">>
      [] t.type = "EmphasisRun" -> Repeat(t.s[1], t.n)
      [] t.type = "Whitespace" -> <<" ">>
      [] t.type = "Tab" -> <<" ", " ", " ", " ">>
      [] t.type = "Newline" -> <<"\n">>
      [] t.type = "ThematicBreak" -> <<"-", "-", "-">>
      [] OTHER -> <<>>

\* the code content and the position of the cursor when the scan stops
RECURSIVE CodeSpanFrom(_, _, _)
CodeSpanFrom(toks, pos, code_content) ==
    IF ~HasToken(toks, pos) \/ IsAt(toks, pos, "CodeTick")
    THEN [content |-> code_content, pos |-> pos]
    ELSE CodeSpanFrom(toks, advance(toks, pos), code_content \o CodeSpanText(TokenAt(toks, pos)))

parse_code_span(toks, pos) == CodeSpanFrom(toks, pos, <<>>)

(***************************************************************************)
(* parse_link_type (parser.rs 467-586)                                     *)
(***************************************************************************)
\* parser.rs 474-503: the label scan; lb is [pos, label_elements, label_buffer, delimiter_stack]
LabelText(t) ==
    CASE t.type \in {"Text", "Punctuation", "OrderedListMarker"} -> t.s
      [] t.type = "Escape" -> <<"\\">> \o t.s
      [] t.type = "Whitespace" -> <<" ">>
      [] t.type = "ThematicBreak" -> <<"-", "-", "-">>
      [] t.type = "OpenParenthesis" -> <<"(">>
      [] t.type = "CloseParenthesis" -> <<")">>
      [] OTHER -> <<>>

RECURSIVE LabelFrom(_, _)
LabelFrom(toks, lb) ==
    IF ~HasToken(toks, lb.pos) THEN lb
    ELSE LET token == TokenAt(toks, lb.pos)
             flushed == push_buffer_to_collection(lb.label_elements, lb.label_buffer,
                                                  InlineFromString)
         IN IF token.type = "CloseBracket"
            THEN [lb EXCEPT !.label_elements = flushed, !.label_buffer = <<>>]
            ELSE IF token.type = "EmphasisRun"
            THEN LabelFrom(toks,
                    [pos |-> advance(toks, lb.pos),
                     label_elements |-> Append(flushed, Placeholder),
                     label_buffer |-> <<>>,
                     delimiter_stack |->
                        Append(lb.delimiter_stack,
                               Delimiter(token.s[1], token.n, lb.pos, Len(flushed)))])
            ELSE LabelFrom(toks,
                    [lb EXCEPT !.pos = advance(toks, lb.pos),
                               !.label_buffer = lb.label_buffer \o LabelText(token)])

\* parser.rs 531-572: the scan for the uri and the title;
\* us is [pos, uri, title, is_building_title, is_valid_title, has_opening_quote]
UriText(t) ==
    CASE t.type \in {"Text", "Punctuation", "OrderedListMarker"} -> t.s
      [] t.type = "Escape" -> <<"\\">> \o t.s
      [] t.type = "ThematicBreak" -> <<"-", "-", "-">>
      [] OTHER -> <<>>

TitleText(t) ==
    CASE t.type \in {"Text", "Punctuation", "OrderedListMarker"} -> t.s
      [] t.type = "Escape" -> <<"\\">> \o t.s
      [] t.type = "EmphasisRun" -> Repeat(t.s[1], t.n)
      [] t.type = "OpenBracket" -> <<"[">>
      [] t.type = "CloseBracket" -> <<"]">>
      [] t.type = "OpenParenthesis" -> <<"(">>
      [] t.type = "Tab" -> <<"\t">>
      [] t.type = "Newline" -> <<"\\", "n">>
      [] t.type = "Whitespace" -> <<" ">>
      [] t.type = "CodeTick" -> <<Backtick>>
      [] t.type = "CodeFence" -> <<Backtick, Backtick, Backtick>>
      [] t.type = "ThematicBreak" -> <<"-", "-", "-">>
      [] OTHER -> <<>>

RECURSIVE UriFrom(_, _)
UriFrom(toks, us) ==
    IF ~HasToken(toks, us.pos) \/ IsAt(toks, us.pos, "CloseParenthesis") THEN us
    ELSE LET token == TokenAt(toks, us.pos)
             next == advance(toks, us.pos)
         IN IF ~us.is_building_title
            THEN IF token.type = "Whitespace"
                 THEN UriFrom(toks, [us EXCEPT !.pos = next, !.is_building_title = TRUE])
                 ELSE UriFrom(toks, [us EXCEPT !.pos = next, !.uri = us.uri \o UriText(token)])
            ELSE IF token = Punctuation("\"")
                 THEN IF us.has_opening_quote
                      THEN UriFrom(toks, [us EXCEPT !.pos = next, !.is_valid_title = TRUE,
                                                    !.is_building_title = FALSE])
                      ELSE UriFrom(toks, [us EXCEPT !.pos = next, !.has_opening_quote = TRUE,
                                                    !.is_valid_title = FALSE])
                 ELSE UriFrom(toks, [us EXCEPT !.pos = next,
                                               !.title = us.title \o TitleText(token)])

\* the closures passed as make_element by parse_inline (parser.rs 344-348, 380-384)
make_element(kind, label, title, url) ==
    IF kind = "Image" THEN Image(flatten_inline(label), title, url)
    ELSE Link(label, title, url)

\* The element, the cursor position on return, and whether resolve_emphasis panicked
parse_link_type(toks, pos, kind) ==
    LET lb == LabelFrom(toks, [pos |-> pos, label_elements |-> <<>>,
                               label_buffer |-> <<>>, delimiter_stack |-> <<>>])
        resolved == resolve_emphasis(lb.label_elements, lb.delimiter_stack)
        label_elements == resolved.elements
        label == flatten_inline(label_elements)
        us == UriFrom(toks, [pos |-> advance(toks, lb.pos), uri |-> <<>>, title |-> <<>>,
                             is_building_title |-> FALSE, is_valid_title |-> TRUE,
                             has_opening_quote |-> FALSE])
    IN IF resolved.pc = "panic"
       THEN [element |-> Placeholder, pos |-> lb.pos, panic |-> TRUE]
       ELSE IF ~IsAt(toks, lb.pos, "CloseBracket")
       THEN [element |-> TextEl(<<"[">> \o label), pos |-> lb.pos, panic |-> FALSE]
       ELSE IF ~IsAt(toks, lb.pos + 1, "OpenParenthesis")
       THEN [element |-> TextEl(<<"[">> \o label \o <<"]">>),
             pos |-> advance(toks, lb.pos), panic |-> FALSE]
       ELSE IF ~IsAt(toks, us.pos, "CloseParenthesis")
       THEN [element |-> TextEl(<<"[">> \o label \o <<"]", "(">> \o us.uri \o <<" ">>),
             pos |-> us.pos, panic |-> FALSE]
       ELSE IF us.title # <<>> /\ ~us.is_valid_title
       THEN [element |-> TextEl(<<"[">> \o label \o <<"]", "(">> \o us.uri \o <<" ">>
                                \o us.title \o <<")">>),
             pos |-> us.pos, panic |-> FALSE]
       ELSE [element |-> make_element(kind, label_elements, us.title, us.uri),
             pos |-> us.pos, panic |-> FALSE]


(***************************************************************************)
(* parse_inline (parser.rs 305-413), one loop iteration at a time.          *)
(* A parser state is [tokens, current_position, parsed_inline_elements,     *)
(* delimiter_stack, buffer, rs, pc]: rs is the state of resolve_emphasis,   *)
(* pc is "scan", "resolve", "done" or "panic".                              *)
(***************************************************************************)
InlineStart(markdown_tokens) ==
    [tokens |-> markdown_tokens, current_position |-> 0,
     parsed_inline_elements |-> <<>>, delimiter_stack |-> <<>>, buffer |-> <<>>,
     rs |-> ResolveStart(<<>>, <<>>), pc |-> "scan"]

InlineFlushed(ps) ==
    push_buffer_to_collection(ps.parsed_inline_elements, ps.buffer, InlineFromString)

\* the characters an arm of parser.rs 388-395 appends to the buffer
BufferText(t) ==
    CASE t.type = "Escape" -> <<"\\">> \o t.s
      [] t.type \in {"Text", "Punctuation", "OrderedListMarker"} -> t.s
      [] t.type = "Whitespace" -> <<" ">>
      [] t.type = "CloseBracket" -> <<"]">>
      [] t.type = "OpenParenthesis" -> <<"(">>
      [] t.type = "CloseParenthesis" -> <<")">>
      [] t.type = "ThematicBreak" -> <<"-", "-", "-">>
      [] OTHER -> <<>>

BufferedTypes == {"Escape", "Text", "Punctuation", "OrderedListMarker", "Whitespace",
                  "CloseBracket", "OpenParenthesis", "CloseParenthesis", "ThematicBreak"}

\* parser.rs 325-339
InlineEmphasis(ps, token) ==
    LET flushed == InlineFlushed(ps)
    IN [ps EXCEPT
          !.delimiter_stack = Append(ps.delimiter_stack,
              Delimiter(token.s[1], token.n, ps.current_position, Len(flushed))),
          !.parsed_inline_elements = Append(flushed, Placeholder),
          !.buffer = <<>>,
          !.current_position = advance(ps.tokens, ps.current_position)]

\* parser.rs 340-350 and 376-387: a link from the bracket at position pos
InlineLinkType(ps, pos, kind) ==
    LET r == parse_link_type(ps.tokens, pos, kind)
    IN IF r.panic THEN [ps EXCEPT !.pc = "panic"]
       ELSE [ps EXCEPT
               !.parsed_inline_elements = Append(InlineFlushed(ps), r.element),
               !.buffer = <<>>,
               !.current_position = advance(ps.tokens, r.pos)]

\* parser.rs 351-367
InlineCodeTick(ps) ==
    LET r == parse_code_span(ps.tokens, advance(ps.tokens, ps.current_position))
        element == IF ~IsAt(ps.tokens, r.pos, "CodeTick")
                   THEN TextEl(<<Backtick>> \o r.content \o <<Backtick>>)
                   ELSE CodeEl(r.content)
    IN [ps EXCEPT
          !.parsed_inline_elements = Append(InlineFlushed(ps), element),
          !.buffer = <<>>,
          !.current_position = advance(ps.tokens, r.pos)]

\* parser.rs 368-387
InlineBang(ps) ==
    IF ~IsAt(ps.tokens, ps.current_position + 1, "OpenBracket")
    THEN [ps EXCEPT !.buffer = Append(ps.buffer, "!"),
                    !.current_position = advance(ps.tokens, ps.current_position)]
    ELSE InlineLinkType(ps, advance(ps.tokens, ps.current_position), "Image")

\* parser.rs 388-395
InlineBuffered(ps, token) ==
    [ps EXCEPT !.buffer = ps.buffer \o BufferText(token),
               !.current_position = advance(ps.tokens, ps.current_position)]

\* parser.rs 396: any other token flushes the buffer
InlineOther(ps) ==
    [ps EXCEPT !.parsed_inline_elements = InlineFlushed(ps),
               !.buffer = <<>>,
               !.current_position = advance(ps.tokens, ps.current_position)]

\* the arm of the match (parser.rs 324-397) that the current token selects
InlineArmOf(token) ==
    CASE token.type = "EmphasisRun" -> "emphasis"
      [] token.type = "OpenBracket" -> "link"
      [] token.type = "CodeTick" -> "code"
      [] token = Punctuation("!") -> "bang"
      [] token.type \in BufferedTypes -> "buffered"
      [] OTHER -> "other"

\* parser.rs 318-400: one iteration of the while loop
InlineIteration(ps) ==
    LET token == TokenAt(ps.tokens, ps.current_position)
        arm == InlineArmOf(token)
    IN CASE arm = "emphasis" -> InlineEmphasis(ps, token)
         [] arm = "link" -> InlineLinkType(ps, ps.current_position, "Link")
         [] arm = "code" -> InlineCodeTick(ps)
         [] arm = "bang" -> InlineBang(ps)
         [] arm = "buffered" -> InlineBuffered(ps, token)
         [] OTHER -> InlineOther(ps)

\* parser.rs 402-408: final flush, classify_flanking of every delimiter, then
\* the call of resolve_emphasis
InlineEnd(ps) ==
    LET flushed == InlineFlushed(ps)
        classified == [k \in 1..Len(ps.delimiter_stack) |->
                          classify_flanking(ps.delimiter_stack[k], ps.tokens)]
    IN [ps EXCEPT !.parsed_inline_elements = flushed, !.buffer = <<>>,
                  !.delimiter_stack = classified,
                  !.rs = ResolveStart(flushed, classified),
                  !.pc = "resolve"]

\* a step of resolve_emphasis inside parse_inline; its return ends parse_inline
InlineResolve(ps) ==
    LET rs == ResolveStep(ps.rs)
    IN [ps EXCEPT !.rs = rs,
                  !.parsed_inline_elements = rs.elements,
                  !.delimiter_stack = rs.delimiter_stack,
                  !.pc = IF rs.pc \in {"done", "panic"} THEN rs.pc ELSE "resolve"]

InlineStep(ps) ==
    CASE ps.pc = "scan" ->
            IF ps.current_position >= Len(ps.tokens) THEN InlineEnd(ps)
            ELSE InlineIteration(ps)
      [] ps.pc = "resolve" -> InlineResolve(ps)
      [] OTHER -> ps

RECURSIVE InlineFrom(_)
InlineFrom(ps) == IF ps.pc \in {"done", "panic"} THEN ps ELSE InlineFrom(InlineStep(ps))

\* parse_inline(markdown_tokens): the final parser state
parse_inline(markdown_tokens) == InlineFrom(InlineStart(markdown_tokens))


(***************************************************************************)
(* Block elements (types.rs, enum MdBlockElement), records of one shape.    *)
(* An MdListItem is its content; language is empty for None; a block whose  *)
(* parse panicked is the block Panic.                                       *)
(***************************************************************************)
Block(kind, level, content, language, lines, items) ==
    [kind |-> kind, level |-> level, content |-> content, language |-> language,
     lines |-> lines, items |-> items, headers |-> <<>>, body |-> <<>>]
Header(level, content) == Block("Header", level, content, <<>>, <<>>, <<>>)
Paragraph(content) == Block("Paragraph", 0, content, <<>>, <<>>, <<>>)
CodeBlock(language, lines) == Block("CodeBlock", 0, <<>>, language, lines, <<>>)
ThematicBreakBlock == Block("ThematicBreak", 0, <<>>, <<>>, <<>>, <<>>)
UnorderedList(items) == Block("UnorderedList", 0, <<>>, <<>>, <<>>, items)
OrderedList(items) == Block("OrderedList", 0, <<>>, <<>>, <<>>, items)
NoBlock == Block("None", 0, <<>>, <<>>, <<>>, <<>>)
PanicBlock == Block("Panic", 0, <<>>, <<>>, <<>>, <<>>)

\* list.split(|token| *token == Token::Newline): the segments between Newline tokens
RECURSIVE SplitFrom(_, _, _)
SplitFrom(toks, k, segment) ==
    IF k > Len(toks) THEN <<segment>>
    ELSE IF toks[k] = Newline THEN <<segment>> \o SplitFrom(toks, k + 1, <<>>)
    ELSE SplitFrom(toks, k + 1, Append(segment, toks[k]))

SplitNewline(toks) == SplitFrom(toks, 1, <<>>)

\* the predicates passed as is_list_item (parser.rs 79-84, 103-106)
is_list_item(kind, line) ==
    /\ Len(line) >= 2
    /\ line[2] = Whitespace
    /\ IF kind = "OrderedList" THEN line[1].type = "OrderedListMarker"
       ELSE line[1] = Punctuation("-")

\* parser.rs 150-153: every leading Tab of a nested line is removed
RECURSIVE StripTabs(_)
StripTabs(nested) ==
    IF nested # <<>> /\ nested[1] = Tab THEN StripTabs(Tail(nested)) ELSE nested

\* parser.rs 146-159: the index after the run of Tab-led lines that starts at j
RECURSIVE NestedEnd(_, _)
NestedEnd(lines, j) ==
    IF j < Len(lines) /\ lines[j + 1] # <<>> /\ lines[j + 1][1] = Tab
    THEN NestedEnd(lines, j + 1)
    ELSE j

\* parser.rs 162-169: the nested lines joined by Newline
RECURSIVE JoinNewline(_)
JoinNewline(nested_lines) ==
    IF nested_lines = <<>> THEN <<>>
    ELSE IF Len(nested_lines) = 1 THEN nested_lines[1]
    ELSE nested_lines[1] \o <<Newline>> \o JoinNewline(Tail(nested_lines))

\* parser.rs 172-177: ordered is tried first
NestedKindMutant(nested_tokens) == "UnorderedList"
NestedKind(nested_tokens) ==
    IF nested_tokens # <<>> /\ nested_tokens[1].type = "OrderedListMarker"
    THEN "OrderedList"
    ELSE "UnorderedList"

\* parser.rs 204-251
CodeBlockText(t) ==
    CASE t.type \in {"Text", "Punctuation", "OrderedListMarker"} -> t.s
      [] t.type = "Whitespace" -> <<" ">>
      [] t.type = "Newline" -> <<"\n">>
      [] t.type = "ThematicBreak" -> <<"-", "-", "-">>
      [] t.type = "Escape" -> <<"\\">> \o t.s
      [] t.type = "CodeTick" -> <<Backtick>>
      [] t.type = "OpenParenthesis" -> <<"(">>
      [] t.type = "CloseParenthesis" -> <<")">>
      [] t.type = "OpenBracket" -> <<"[">>
      [] t.type = "CloseBracket" -> <<"]">>
      [] t.type = "EmphasisRun" -> Repeat(t.s[1], t.n)
      [] OTHER -> <<>>

\* the line buffer when the loop of parser.rs 213-243 stops
RECURSIVE CodeBlockFrom(_, _, _)
CodeBlockFrom(line, k, line_buffer) ==
    IF k > Len(line) \/ line[k] = CodeFence THEN line_buffer
    ELSE CodeBlockFrom(line, k + 1, line_buffer \o CodeBlockText(line[k]))

StringFromString(s) == s

parse_codeblock(line) ==
    LET language == IF Len(line) >= 2 /\ line[2].type = "Text" THEN line[2].s ELSE <<>>
        line_buffer == CodeBlockFrom(line, 3, <<>>)
    IN CodeBlock(language, push_buffer_to_collection(<<>>, line_buffer, StringFromString))

\* parser.rs 265-279: the number of leading # tokens (the index i after the loop)
RECURSIVE HeadingLevel(_, _)
HeadingLevel(line, k) ==
    IF k < Len(line) /\ line[k + 1] = Punctuation("#") THEN HeadingLevel(line, k + 1) ELSE k

\* a block with inline content, or the block Panic when parse_inline panicked
InlineBlock(ps, kind, level) ==
    IF ps.pc = "panic" THEN PanicBlock
    ELSE Block(kind, level, ps.parsed_inline_elements, <<>>, <<>>, <<>>)

\* parser.rs 282: a Whitespace follows the run of # tokens that ends at index idx
IsHeading(line, idx) ==
    ~(idx >= Len(line) \/ line[idx + 1] # Whitespace)

\* parser.rs 281-291: idx is the index i after the loop, level the u8 counter
HeadingOf(line, idx, level) ==
    InlineBlock(parse_inline(IF IsHeading(line, idx)
                             THEN SubSeq(line, idx + 2, Len(line))
                             ELSE line),
                IF IsHeading(line, idx) THEN "Header" ELSE "Paragraph",
                IF IsHeading(line, idx) THEN level ELSE 0)

\* u8::MAX
U8Max == 255

\* parser.rs 265-266: a heading state is [line, i, heading_level,
\* overflow_checks, block, pc] with pc "count", "counted", "done" or "panic"
HeadingStart(line, checked) ==
    [line |-> line, i |-> 0, heading_level |-> 0, overflow_checks |-> checked,
     block |-> NoBlock, pc |-> "count"]

\* parser.rs 267-279: one iteration of the loop.  heading_level += 1 on a u8
\* that holds u8::MAX panics in a build with overflow checks and wraps to 0 in
\* a build without them.
HeadingIteration(hs) ==
    IF hs.i < Len(hs.line) /\ hs.line[hs.i + 1] = Punctuation("#")
    THEN IF hs.heading_level = U8Max /\ hs.overflow_checks
         THEN [hs EXCEPT !.block = PanicBlock, !.pc = "panic"]
         ELSE [hs EXCEPT !.heading_level = (hs.heading_level + 1) % (U8Max + 1),
                         !.i = hs.i + 1]
    ELSE [hs EXCEPT !.pc = "counted"]

\* parser.rs 281-291
HeadingEnd(hs) ==
    [hs EXCEPT !.block = HeadingOf(hs.line, hs.i, hs.heading_level), !.pc = "done"]

HeadingStep(hs) ==
    CASE hs.pc = "count" -> HeadingIteration(hs)
      [] hs.pc = "counted" -> HeadingEnd(hs)
      [] OTHER -> hs

RECURSIVE HeadingFrom(_)
HeadingFrom(hs) == IF hs.pc \in {"done", "panic"} THEN hs ELSE HeadingFrom(HeadingStep(hs))

\* parser.rs 264-292, in a build with (checked) or without overflow checks
parse_heading(line, checked) == HeadingFrom(HeadingStart(line, checked)).block

IsPanicBlock(b) == b.kind = "Panic"

\* the arm of parser.rs 43-62 that a line selects
BlockArmOf(line) ==
    IF line = <<>> THEN "paragraph"
    ELSE CASE line[1] = Punctuation("#") -> "heading"
           [] line[1] = Punctuation("-") -> IF Len(line) = 1 THEN "thematic" ELSE "UnorderedList"
           [] line[1].type = "OrderedListMarker" -> "OrderedList"
           [] line[1] = CodeFence -> "code"
           [] line[1] = ThematicBreak -> "thematic"
           [] line[1] = Newline -> "none"
           [] OTHER -> "paragraph"

\* a list of the items, or the block Panic when an item panicked
ListBlock(list_items, kind) ==
    IF \E k \in 1..Len(list_items) : IsPanicBlock(list_items[k]) THEN PanicBlock
    ELSE IF kind = "OrderedList" THEN OrderedList(list_items)
    ELSE UnorderedList(list_items)

\* parser.rs 140-142: the content of an item is pushed unless it is None
WithItem(list_items, content) ==
    IF content.kind = "None" THEN list_items ELSE Append(list_items, content)

\* parser.rs 145-159: the nested lines after line index idx, without their Tabs
NestedLines(lines, idx) ==
    [k \in 1..(NestedEnd(lines, idx + 1) - (idx + 1)) |-> StripTabs(lines[idx + 1 + k])]

\* parser.rs 40-63 and 125-191
RECURSIVE parse_block(_, _), parse_list(_, _, _), ListFrom(_, _, _, _, _),
          NestedFrom(_, _, _, _, _, _)
parse_block(line, checked) ==
    CASE BlockArmOf(line) = "heading" -> parse_heading(line, checked)
      [] BlockArmOf(line) \in {"UnorderedList", "OrderedList"} ->
            parse_list(line, BlockArmOf(line), checked)
      [] BlockArmOf(line) = "code" -> parse_codeblock(line)
      [] BlockArmOf(line) = "thematic" -> ThematicBreakBlock
      [] BlockArmOf(line) = "none" -> NoBlock
      [] OTHER -> InlineBlock(parse_inline(line), "Paragraph", 0)

\* parser.rs 161-184: the nested list is pushed and the scan goes on at line j
NestedFrom(lines, idx, kind, list_items, nested_tokens, checked) ==
    ListFrom(lines, (NestedEnd(lines, idx + 1) - 1) + 1, kind,
             Append(list_items,
                    parse_list(nested_tokens, NestedKind(nested_tokens), checked)),
             checked)

\* parser.rs 135-187: the items pushed from line index idx on
ListFrom(lines, idx, kind, list_items, checked) ==
    IF idx >= Len(lines) THEN list_items
    ELSE IF ~is_list_item(kind, lines[idx + 1])
    THEN ListFrom(lines, idx + 1, kind, list_items, checked)
    ELSE IF NestedLines(lines, idx) # <<>>
    THEN NestedFrom(lines, idx, kind,
                    WithItem(list_items,
                             parse_block(SubSeq(lines[idx + 1], 3, Len(lines[idx + 1])),
                                         checked)),
                    JoinNewline(NestedLines(lines, idx)), checked)
    ELSE ListFrom(lines, idx + 1, kind,
                  WithItem(list_items,
                           parse_block(SubSeq(lines[idx + 1], 3, Len(lines[idx + 1])),
                                       checked)),
                  checked)

parse_list(list, kind, checked) ==
    ListBlock(ListFrom(SplitNewline(list), 0, kind, <<>>, checked), kind)

\* parser.rs 23-25: an element is pushed unless it is None
Pushed(element) == IF element.kind = "None" THEN <<>> ELSE <<element>>

\* parser.rs 19-29
RECURSIVE parse_blocks(_, _)
parse_blocks(markdown_lines, checked) ==
    IF markdown_lines = <<>> THEN <<>>
    ELSE Pushed(parse_block(Head(markdown_lines), checked))
         \o parse_blocks(Tail(markdown_lines), checked)

(***************************************************************************)
(* group_lines_to_blocks (parser.rs 740-963), one line at a time.           *)
(* A grouper state is [blocks, is_inside_code_block, current_block].        *)
(***************************************************************************)
\* blocks.pop(); blocks.push(block)
ReplaceLast(blks, block) ==
    IF blks = <<>> THEN <<block>> ELSE SubSeq(blks, 1, Len(blks) - 1) \o <<block>>

PreviousBlock(blks) == IF blks = <<>> THEN <<>> ELSE blks[Len(blks)]

\* the previous block is a list of the line's kind: marker, then Whitespace
StartsUnorderedList(block) ==
    Len(block) >= 2 /\ block[1] = Punctuation("-") /\ block[2] = Whitespace
StartsOrderedList(block) ==
    Len(block) >= 2 /\ block[1].type = "OrderedListMarker" /\ block[2] = Whitespace

\* current_block.extend(line.to_owned())
ExtendCurrent(gs, line) == [gs EXCEPT !.current_block = gs.current_block \o line]

\* the end of an iteration that no continue has left (parser.rs 956-960):
\* current_block is pushed when it is not empty, then cleared
PushCurrentMutant(gs) ==
    IF gs.current_block # <<>>
    THEN [gs EXCEPT !.blocks = Append(gs.blocks, gs.current_block)]
    ELSE gs
PushCurrent(gs) ==
    IF gs.current_block # <<>>
    THEN [gs EXCEPT !.blocks = Append(gs.blocks, gs.current_block),
                    !.current_block = <<>>]
    ELSE [gs EXCEPT !.current_block = <<>>]

SetextTwo(previous_block) ==
    <<Punctuation("#"), Punctuation("#"), Whitespace>> \o previous_block
SetextOne(previous_block) ==
    <<Punctuation("#"), Whitespace>> \o previous_block

\* parser.rs 750-765
GroupInsideCodeMutant(gs, line) ==
    LET previous_block == PreviousBlock(gs.blocks)
    IN IF line # <<>> /\ line[1] = CodeFence
       THEN [gs EXCEPT !.is_inside_code_block = FALSE,
                       !.blocks = ReplaceLast(gs.blocks, previous_block \o line)]
       ELSE [gs EXCEPT !.blocks = Append(gs.blocks, line \o <<Newline>>)]
GroupInsideCode(gs, line) ==
    LET previous_block == PreviousBlock(gs.blocks)
    IN IF line # <<>> /\ line[1] = CodeFence
       THEN [gs EXCEPT !.is_inside_code_block = FALSE,
                       !.blocks = ReplaceLast(gs.blocks, previous_block \o line)]
       ELSE [gs EXCEPT !.blocks = ReplaceLast(gs.blocks,
                                              previous_block \o line \o <<Newline>>)]

\* parser.rs 768-771
GroupHeadingMutant(gs, line) ==
    IF gs.blocks # <<>> /\ PreviousBlock(gs.blocks)[1] = Punctuation("#")
    THEN [gs EXCEPT !.blocks = ReplaceLast(gs.blocks,
                                           PreviousBlock(gs.blocks) \o <<Newline>> \o line)]
    ELSE [gs EXCEPT !.blocks = Append(gs.blocks, line)]
GroupHeading(gs, line) == [gs EXCEPT !.blocks = Append(gs.blocks, line)]

\* parser.rs 772-805
GroupDash(gs, line) ==
    LET previous_block == PreviousBlock(gs.blocks)
    IN IF previous_block = <<>> THEN ExtendCurrent(gs, line)
       ELSE IF StartsUnorderedList(previous_block)
       THEN [gs EXCEPT !.blocks = ReplaceLast(gs.blocks,
                                              previous_block \o <<Newline>> \o line)]
       ELSE IF previous_block[1] = Punctuation("#")
       THEN [gs EXCEPT !.blocks = Append(gs.blocks, line)]
       ELSE IF Len(line) > 1 THEN ExtendCurrent(gs, line)
       ELSE [gs EXCEPT !.blocks = ReplaceLast(gs.blocks, SetextTwo(previous_block))]

\* parser.rs 808-818
has_content(line) == \E idx \in 2..Len(line) : line[idx] \notin {Tab, Whitespace}

\* parser.rs 806-859
GroupTab(gs, line) ==
    LET previous_block == PreviousBlock(gs.blocks)
    IN IF ~(Len(line) > 1 /\ has_content(line)) THEN gs
       ELSE IF previous_block = <<>> THEN ExtendCurrent(gs, line)
       ELSE IF StartsUnorderedList(previous_block) \/ StartsOrderedList(previous_block)
       THEN [gs EXCEPT !.blocks = ReplaceLast(gs.blocks,
                                              previous_block \o <<Newline>> \o line)]
       ELSE ExtendCurrent(gs, line)

\* parser.rs 860-879
GroupOrdered(gs, line) ==
    LET previous_block == PreviousBlock(gs.blocks)
    IN IF previous_block # <<>> /\ StartsOrderedList(previous_block)
       THEN [gs EXCEPT !.blocks = ReplaceLast(gs.blocks,
                                              previous_block \o <<Newline>> \o line)]
       ELSE ExtendCurrent(gs, line)

\* parser.rs 880-900
GroupThematic(gs, line) ==
    LET previous_block == PreviousBlock(gs.blocks)
    IN IF previous_block = <<>> THEN ExtendCurrent(gs, line)
       ELSE IF previous_block[1] = Punctuation("#") \/ previous_block[1] = Newline
       THEN [gs EXCEPT !.blocks = Append(gs.blocks, line)]
       ELSE [gs EXCEPT !.blocks = ReplaceLast(gs.blocks, SetextTwo(previous_block))]

\* parser.rs 901-903
GroupCodeTick(gs, line) == ExtendCurrent(gs, line)

\* parser.rs 904-914 (the fence is not open here: parser.rs 750-765 come first)
GroupCodeFence(gs, line) ==
    ExtendCurrent([gs EXCEPT !.is_inside_code_block = TRUE], line)

\* parser.rs 915-930
GroupEquals(gs, line) ==
    LET previous_block == PreviousBlock(gs.blocks)
    IN IF previous_block = <<>> THEN ExtendCurrent(gs, line)
       ELSE IF previous_block[1].type = "Text"
       THEN [gs EXCEPT !.blocks = ReplaceLast(gs.blocks, SetextOne(previous_block))]
       ELSE gs

\* parser.rs 931-949
GroupText(gs, line) ==
    LET previous_block == PreviousBlock(gs.blocks)
    IN IF previous_block # <<>> /\ previous_block[1].type = "Text"
       THEN [gs EXCEPT !.blocks = ReplaceLast(gs.blocks,
                                              previous_block \o <<Whitespace>> \o line)]
       ELSE ExtendCurrent(gs, line)

\* parser.rs 950-953
GroupOther(gs, line) == ExtendCurrent(gs, line)

\* the arm of parser.rs 750-954 that a line selects
GroupArmOf(gs, line) ==
    IF gs.is_inside_code_block THEN "inside"
    ELSE IF line = <<>> THEN "other"
    ELSE CASE line[1] = Punctuation("#") -> "heading"
           [] line[1] = Punctuation("-") -> "dash"
           [] line[1] = Tab -> "tab"
           [] line[1].type = "OrderedListMarker" -> "ordered"
           [] line[1] = ThematicBreak -> "thematic"
           [] line[1] = CodeTick -> "codetick"
           [] line[1] = CodeFence -> "codefence"
           [] line[1] = Text(<<"=">>) -> "equals"
           [] line[1].type = "Text" -> "text"
           [] OTHER -> "other"

\* the match of parser.rs 767-954
GroupMatch(gs, line, arm) ==
    CASE arm = "heading" -> GroupHeading(gs, line)
      [] arm = "dash" -> GroupDash(gs, line)
      [] arm = "tab" -> GroupTab(gs, line)
      [] arm = "ordered" -> GroupOrdered(gs, line)
      [] arm = "thematic" -> GroupThematic(gs, line)
      [] arm = "codetick" -> GroupCodeTick(gs, line)
      [] arm = "codefence" -> GroupCodeFence(gs, line)
      [] arm = "equals" -> GroupEquals(gs, line)
      [] arm = "text" -> GroupText(gs, line)
      [] OTHER -> GroupOther(gs, line)

\* one iteration of the loop: the branches of parser.rs 750-765 continue, the
\* match is followed by parser.rs 956-960
GroupLine(gs, line) ==
    IF GroupArmOf(gs, line) = "inside" THEN GroupInsideCode(gs, line)
    ELSE PushCurrent(GroupMatch(gs, line, GroupArmOf(gs, line)))

GroupStart == [blocks |-> <<>>, is_inside_code_block |-> FALSE, current_block |-> <<>>]

RECURSIVE GroupFrom(_, _, _)
GroupFrom(gs, lines, k) ==
    IF k > Len(lines) THEN gs ELSE GroupFrom(GroupLine(gs, lines[k]), lines, k + 1)

group_lines_to_blocks(lines) == GroupFrom(GroupStart, lines, 1).blocks

(***************************************************************************)
(* Pipe tables.  types.rs declares Token::TableCellSeparator, MdTableCell,   *)
(* TableAlignment and MdBlockElement::Table; the tokenizer arm, the grouper  *)
(* rule and the table parser follow the specification (sections 3, 4.2 and   *)
(* 4.3) and parser/test.rs 1127-1565.                                        *)
(***************************************************************************)
TableCellSeparator == [type |-> "TableCellSeparator", s |-> <<>>, n |-> 0]

TableAlignment == {"Left", "Center", "Right", "None"}

MdTableCell(content, alignment, is_header) ==
    [content |-> content, alignment |-> alignment, is_header |-> is_header]

Table(headers, body) ==
    [Block("Table", 0, <<>>, <<>>, <<>>, <<>>) EXCEPT !.headers = headers, !.body = body]

\* the tokens of the text of a cell: an empty cell has none (the Newline of
\* tokenize stands for an empty line, not for an empty stretch of a line)
CellTokens(text) == IF text = <<>> THEN <<>> ELSE tokenize(text)

\* the tokens of a table line: a separator, then every cell followed by a separator
RECURSIVE TableLine(_)
TableLine(cells) ==
    IF cells = <<>> THEN <<TableCellSeparator>>
    ELSE <<TableCellSeparator>> \o CellTokens(Head(cells)) \o TableLine(Tail(cells))

StartsTable(block) == block # <<>> /\ block[1] = TableCellSeparator

\* a separator-led line continues a table group, or starts one
GroupTableRow(gs, line) ==
    LET previous_block == PreviousBlock(gs.blocks)
    IN IF StartsTable(previous_block)
       THEN [gs EXCEPT !.blocks = ReplaceLast(gs.blocks,
                                              previous_block \o <<Newline>> \o line)]
       ELSE PushCurrent(ExtendCurrent(gs, line))

\* the token runs between the separators of a row
RECURSIVE CellsFrom(_, _, _)
CellsFrom(row, k, cell) ==
    IF k > Len(row) THEN <<>>
    ELSE IF row[k] = TableCellSeparator THEN <<cell>> \o CellsFrom(row, k + 1, <<>>)
    ELSE CellsFrom(row, k + 1, Append(cell, row[k]))

\* what precedes the first separator is no cell
SplitCells(row) == Tail(CellsFrom(row, 1, <<>>))

\* an alignment cell without its Whitespace tokens
RECURSIVE Trimmed(_)
Trimmed(cell) ==
    IF cell = <<>> THEN <<>>
    ELSE IF Head(cell) = Whitespace THEN Trimmed(Tail(cell))
    ELSE <<Head(cell)>> \o Trimmed(Tail(cell))

\* :-- Left, :-: Center, --: Right, -- None
AlignmentOf(cell) ==
    LET marks == Trimmed(cell)
        colon_left == marks # <<>> /\ marks[1] = Punctuation(":")
        colon_right == marks # <<>> /\ marks[Len(marks)] = Punctuation(":")
    IN IF colon_left /\ colon_right THEN "Center"
       ELSE IF colon_left THEN "Left"
       ELSE IF colon_right THEN "Right"
       ELSE "None"

ColumnAlignment(alignment_cells, column) ==
    IF column <= Len(alignment_cells) THEN AlignmentOf(alignment_cells[column]) ELSE "None"

TableCell(cell, alignment, is_header) ==
    MdTableCell(parse_inline(cell).parsed_inline_elements, alignment, is_header)

TableCells(cells, alignment_cells, is_header) ==
    [column \in 1..Len(cells) |->
        TableCell(cells[column], ColumnAlignment(alignment_cells, column), is_header)]

\* the rows after the header row and the alignment row
TableBodyRowsMutant(rows) == SubSeq(rows, 2, Len(rows))
TableBodyRows(rows) == SubSeq(rows, 3, Len(rows))

\* the header cells, then the cells of every body row
TableOf(rows, alignment_cells, is_header) ==
    [r \in 1..Len(rows) |-> TableCells(SplitCells(rows[r]), alignment_cells, is_header[r])]

TableFrom(header_and_body) ==
    Table(header_and_body[1], SubSeq(header_and_body, 2, Len(header_and_body)))

AlignmentCells(rows) == IF Len(rows) >= 2 THEN SplitCells(rows[2]) ELSE <<>>

TableRows(rows) == <<rows[1]>> \o TableBodyRows(rows)

TableParsed(rows) ==
    TableOf(TableRows(rows), AlignmentCells(rows),
            [r \in 1..Len(TableRows(rows)) |-> r = 1])

parse_table(group) == TableFrom(TableParsed(SplitNewline(group)))

\* group_lines_to_blocks and parse_block with the table rules in front
group_line_with_tables(gs, line) ==
    IF ~gs.is_inside_code_block /\ line # <<>> /\ line[1] = TableCellSeparator
    THEN GroupTableRow(gs, line)
    ELSE GroupLine(gs, line)

RECURSIVE parse_blocks_with_tables(_, _)
parse_blocks_with_tables(markdown_lines, checked) ==
    IF markdown_lines = <<>> THEN <<>>
    ELSE (IF StartsTable(Head(markdown_lines))
          THEN <<parse_table(Head(markdown_lines))>>
          ELSE parse_blocks(<<Head(markdown_lines)>>, checked))
         \o parse_blocks_with_tables(Tail(markdown_lines), checked)

(***************************************************************************)
(* Inputs                                                                  *)
(***************************************************************************)
\* all sequences over S of length at most n
SeqsUpTo(S, n) == UNION {[1..k -> S] : k \in 0..n}

\* the graphemes from which the lines given to tokenize are drawn
LineAlphabet == {"*", "_", Backtick, "\\", "-", "[", "1", ".", "\t", " ", "\n", "a"}

\* lexer/test.rs 178-188 (unicode): a run of ideographs and the ideographic full stop
UnicodeLine == <<"ko", "re", "ha", "sei", "kai", "de", "su", "IdeographicFullStop">>

\* parser/test.rs 29-38 (escape_char)
EscapeExample ==
    <<"\\", "*", "e", "s", "c", "a", "p", "e", "d", " ", "c", "h", "a", "r", "\\", "*">>

\* a tab, a text and a digit with its dot and space
TabTextDigit == <<"\t", "a", "1", ".", " ">>

\* punctuation and a currency symbol outside the alphabet, and a math symbol
SymbolsLine == <<"a", "%", "&", "@", "U+20AC", "+">>

\* lines of brackets and parentheses, with a letter, a backslash and a space
BracketAlphabet == {"[", "]", "(", ")", "a", "\\", " "}
BracketLines == SeqsUpTo(BracketAlphabet, MaxLineLen)

Lines ==
    SeqsUpTo(LineAlphabet, MaxLineLen) \cup BracketLines
        \cup {UnicodeLine, EscapeExample, TabTextDigit, SymbolsLine}

\* no two adjacent Text tokens and no two adjacent runs of one delimiter:
\* the shape of every token vector that tokenize builds from emphasis and text
Tokenizable(toks) ==
    \A k \in 1..(Len(toks) - 1) :
        /\ ~(toks[k].type = "Text" /\ toks[k + 1].type = "Text")
        /\ ~(toks[k].type = "EmphasisRun" /\ toks[k + 1].type = "EmphasisRun"
             /\ toks[k].s = toks[k + 1].s)

EmphasisAlphabet ==
    {EmphasisRun("*", 1), EmphasisRun("*", 2), EmphasisRun("*", 3), EmphasisRun("_", 1),
     Text(<<"a">>), Whitespace, Punctuation(".")}

EmphasisSeqs == {toks \in SeqsUpTo(EmphasisAlphabet, MaxTokens) : Tokenizable(toks)}

LabelSeqs == {toks \in SeqsUpTo(EmphasisAlphabet, MaxLabel) : Tokenizable(toks)}

\* lexer/test.rs 87-108 (mixed_asterisks): the tokens of "***bold + italic***"
MixedAsterisks ==
    <<EmphasisRun("*", 3), Text(<<"b", "o", "l", "d">>), Whitespace, Text(<<"+">>),
      Whitespace, Text(<<"i", "t", "a", "l", "i", "c">>), EmphasisRun("*", 3)>>

\* the tokens of "[label] rest": a label that no target follows
LabelRest ==
    <<OpenBracket, Text(<<"l", "a", "b", "e", "l">>), CloseBracket, Whitespace,
      Text(<<"r", "e", "s", "t">>)>>

\* a label in a link, in an image, in a bracket without target, in a code span
LinkTail == <<CloseBracket, OpenParenthesis, Text(<<"u">>), CloseParenthesis>>
LinkSeqs ==
    UNION {{<<OpenBracket>> \o l \o LinkTail,
            <<Punctuation("!"), OpenBracket>> \o l \o LinkTail,
            <<OpenBracket>> \o l \o <<CloseBracket>>,
            <<OpenBracket>> \o l \o <<CloseBracket, Whitespace, Text(<<"r">>)>>,
            <<OpenBracket>> \o l \o <<CloseBracket, OpenParenthesis, Text(<<"u">>)>>,
            <<OpenBracket>> \o l,
            <<Punctuation("!")>> \o l,
            <<CodeTick>> \o l \o <<CodeTick>>,
            <<CodeTick>> \o l,
            <<Tab>> \o l} : l \in LabelSeqs}

\* the tokens of "**a ***a***a": two openers before a closer of three
TwoOpeners ==
    <<EmphasisRun("*", 2), Text(<<"a">>), Whitespace, EmphasisRun("*", 3), Text(<<"a">>),
      EmphasisRun("*", 3), Text(<<"a">>)>>

\* the tokens of "[a](a_b)": a link whose URL holds an underscore
UnderscoreUrl ==
    <<OpenBracket, Text(<<"a">>), CloseBracket, OpenParenthesis, Text(<<"a">>),
      EmphasisRun("_", 1), Text(<<"b">>), CloseParenthesis>>

\* the tokens of "*.*a*": two openers before a closer of one
ThreeRuns ==
    <<EmphasisRun("*", 1), Punctuation("."), EmphasisRun("*", 1), Text(<<"a">>),
      EmphasisRun("*", 1)>>

InlineInputs ==
    EmphasisSeqs \cup LinkSeqs \cup {MixedAsterisks, LabelRest, TwoOpeners, UnderscoreUrl}

\* the token vectors of the calls whose end is awaited: short vectors of
\* emphasis runs, text, space and punctuation, the two vectors with two openers,
\* and one vector for each other arm of parse_inline
CallInputs ==
    {toks \in EmphasisSeqs : Len(toks) <= MaxCallTokens}
        \cup {ThreeRuns, TwoOpeners,
              <<OpenBracket, Text(<<"a">>)>>,
              <<Punctuation("!"), Text(<<"a">>)>>,
              <<CodeTick, Text(<<"a">>), CodeTick>>,
              <<Tab, Text(<<"a">>)>>}

\* the source lines from which documents are drawn
DocSourceLines ==
    {<<"-", " ", "a">>, <<"\t", "-", " ", "a">>, <<"\t", "1", ".", " ", "a">>,
     <<"\t", "a">>, <<"\t", "\t", "-", " ", "a">>, <<"1", ".", " ", "a">>,
     <<"a">>, <<>>, <<"#", " ", "a">>, <<"-">>, <<"-", "-", "-">>,
     <<Backtick, Backtick, Backtick>>, <<"=">>, <<Backtick, "a", Backtick>>}

DocLines == {tokenize(line) : line \in DocSourceLines}

\* parser/test.rs 710-759 (unordered_list_with_nested_items)
NestedListExample ==
    << tokenize(<<"-", " ", "I", "t", "e", "m", " ", "1">>),
       tokenize(<<" ", " ", " ", " ", "-", " ", "N", "e", "s", "t", "e", "d", " ",
                  "1", ".", "1">>),
       tokenize(<<" ", " ", " ", " ", "-", " ", "N", "e", "s", "t", "e", "d", " ",
                  "1", ".", "2">>),
       tokenize(<<"-", " ", "I", "t", "e", "m", " ", "2">>) >>

\* a paragraph line and an underline of three '='
SetextUnderlineExample == <<tokenize(<<"a">>), tokenize(<<"=", "=", "=">>)>>

Docs == SeqsUpTo(DocLines, MaxDocLines) \cup {NestedListExample, SetextUnderlineExample}

\* a table as written: what precedes it, the alignment of each column, and the
\* number of cells of each body row (parser/test.rs 1127-1565)
NoTable == [prefix |-> "none", alignments |-> <<>>, rows |-> <<>>]

TableSources ==
    UNION {{[prefix |-> p, alignments |-> a, rows |-> r] :
               p \in {"none", "text", "blank"},
               a \in [1..n -> TableAlignment],
               r \in SeqsUpTo(1..n, MaxBodyRows)} : n \in 1..MaxCols}

CellSource == <<" ", "a", " ">>

\* the text of a body cell: the first cell of the second body row is empty, as
\* in parser/test.rs 1451-1509 (table_with_empty_cells)
BodyCellSource(r, c) == IF r = 2 /\ c = 1 THEN <<>> ELSE CellSource

AlignmentSource(alignment) ==
    CASE alignment = "Left" -> <<" ", ":", "-", "-", " ">>
      [] alignment = "Center" -> <<" ", ":", "-", ":", " ">>
      [] alignment = "Right" -> <<" ", "-", "-", ":", " ">>
      [] OTHER -> <<" ", "-", "-", " ">>

\* the tokenized lines of a table source
TableDoc(src) ==
    LET columns == Len(src.alignments)
        prefix == CASE src.prefix = "text" -> <<tokenize(<<"a">>)>>
                    [] src.prefix = "blank" -> <<tokenize(<<>>)>>
                    [] OTHER -> <<>>
    IN prefix
       \o <<TableLine([c \in 1..columns |-> CellSource])>>
       \o <<TableLine([c \in 1..columns |-> AlignmentSource(src.alignments[c])])>>
       \o [r \in 1..Len(src.rows) |->
              TableLine([c \in 1..src.rows[r] |-> BodyCellSource(r, c)])]

(***************************************************************************)
(* State                                                                   *)
(***************************************************************************)
NotParsed == <<"<not parsed>">>
Panicked == <<"<panic>">>

TokState == [chars |-> chars, i |-> i, tokens |-> tokens, buffer |-> buffer,
             reads |-> reads, pc |-> tk_pc]

IsTok(st) ==
    /\ chars = st.chars
    /\ i = st.i
    /\ tokens = st.tokens
    /\ buffer = st.buffer
    /\ reads = st.reads
    /\ tk_pc = st.pc

SetTok(st) ==
    /\ chars' = st.chars
    /\ i' = st.i
    /\ tokens' = st.tokens
    /\ buffer' = st.buffer
    /\ reads' = st.reads
    /\ tk_pc' = st.pc

TokIdle ==
    /\ chars = <<>>
    /\ i = 0
    /\ tokens = <<>>
    /\ buffer = <<>>
    /\ reads = {}
    /\ tk_pc = "idle"
    /\ line_flat = NotParsed

InlState ==
    [tokens |-> cursor.tokens, current_position |-> cursor.current_position,
     parsed_inline_elements |-> parsed_inline_elements,
     delimiter_stack |-> delimiter_stack, buffer |-> inl_buffer,
     rs |-> [elements |-> parsed_inline_elements, delimiter_stack |-> delimiter_stack,
             i |-> rs_i, j |-> rs_j, closer |-> closer, pc |-> rs_pc],
     pc |-> inl_pc]

IsInl(ps) ==
    /\ cursor = [tokens |-> ps.tokens, current_position |-> ps.current_position]
    /\ parsed_inline_elements = ps.parsed_inline_elements
    /\ delimiter_stack = ps.delimiter_stack
    /\ inl_buffer = ps.buffer
    /\ rs_i = ps.rs.i
    /\ rs_j = ps.rs.j
    /\ closer = ps.rs.closer
    /\ rs_pc = ps.rs.pc
    /\ inl_pc = ps.pc

SetInl(ps) ==
    /\ cursor' = [tokens |-> ps.tokens, current_position |-> ps.current_position]
    /\ parsed_inline_elements' = ps.parsed_inline_elements
    /\ delimiter_stack' = ps.delimiter_stack
    /\ inl_buffer' = ps.buffer
    /\ rs_i' = ps.rs.i
    /\ rs_j' = ps.rs.j
    /\ closer' = ps.rs.closer
    /\ rs_pc' = ps.rs.pc
    /\ inl_pc' = ps.pc

InlIdle ==
    /\ cursor = [tokens |-> <<>>, current_position |-> 0]
    /\ parsed_inline_elements = <<>>
    /\ delimiter_stack = <<>>
    /\ inl_buffer = <<>>
    /\ rs_i = 0
    /\ rs_j = 0
    /\ closer = NoDelimiter
    /\ rs_pc = "start"
    /\ inl_pc = "idle"

GroupState ==
    [blocks |-> blocks, is_inside_code_block |-> is_inside_code_block,
     current_block |-> current_block]

SetGroup(gs) ==
    /\ blocks' = gs.blocks
    /\ is_inside_code_block' = gs.is_inside_code_block
    /\ current_block' = gs.current_block

DocIdle ==
    /\ tokenized_lines = <<>>
    /\ line_index = 0
    /\ blocks = <<>>
    /\ is_inside_code_block = FALSE
    /\ current_block = <<>>
    /\ block_elements = <<>>
    /\ doc_pc = "idle"
    /\ table_src = NoTable

HdState == [line |-> hd_line, i |-> hd_i, heading_level |-> heading_level,
            overflow_checks |-> overflow_checks, block |-> hd_block, pc |-> hd_pc]

IsHd(hs) ==
    /\ hd_line = hs.line
    /\ hd_i = hs.i
    /\ heading_level = hs.heading_level
    /\ overflow_checks = hs.overflow_checks
    /\ hd_block = hs.block
    /\ hd_pc = hs.pc

SetHd(hs) ==
    /\ hd_line' = hs.line
    /\ hd_i' = hs.i
    /\ heading_level' = hs.heading_level
    /\ overflow_checks' = hs.overflow_checks
    /\ hd_block' = hs.block
    /\ hd_pc' = hs.pc

HdIdle ==
    /\ hd_line = <<>>
    /\ hd_i = 0
    /\ heading_level = 0
    /\ overflow_checks = FALSE
    /\ hd_block = NoBlock
    /\ hd_pc = "idle"

(***************************************************************************)
(* tokenize, and parse_inline of its result, on a line                      *)
(***************************************************************************)
InitTok ==
    /\ \E line \in Lines : IsTok(TokenizeStart(line))
    /\ line_flat = NotParsed
    /\ InlIdle
    /\ DocIdle
    /\ HdIdle

Scanning(arm) == tk_pc = "scan" /\ i < Len(chars) /\ ArmOf(At(TokState, i)) = arm

TokEmphasis ==
    /\ Scanning("emphasis")
    /\ SetTok(ArmEmphasis(TokState))
    /\ UNCHANGED <<line_flat, inl_vars, doc_vars, hd_vars>>

TokBacktick ==
    /\ Scanning("backtick")
    /\ SetTok(ArmBacktick(TokState))
    /\ UNCHANGED <<line_flat, inl_vars, doc_vars, hd_vars>>

TokBackslash ==
    /\ Scanning("backslash")
    /\ SetTok(ArmBackslash(TokState))
    /\ UNCHANGED <<line_flat, inl_vars, doc_vars, hd_vars>>

TokDash ==
    /\ Scanning("dash")
    /\ SetTok(ArmDash(TokState))
    /\ UNCHANGED <<line_flat, inl_vars, doc_vars, hd_vars>>

TokBracket ==
    /\ Scanning("bracket")
    /\ SetTok(ArmBracket(TokState))
    /\ UNCHANGED <<line_flat, inl_vars, doc_vars, hd_vars>>

TokDigit ==
    /\ Scanning("digit")
    /\ SetTok(ArmDigit(TokState))
    /\ UNCHANGED <<line_flat, inl_vars, doc_vars, hd_vars>>

TokTab ==
    /\ Scanning("tab")
    /\ SetTok(ArmTab(TokState))
    /\ UNCHANGED <<line_flat, inl_vars, doc_vars, hd_vars>>

TokSpace ==
    /\ Scanning("space")
    /\ SetTok(ArmSpace(TokState))
    /\ UNCHANGED <<line_flat, inl_vars, doc_vars, hd_vars>>

TokNewline ==
    /\ Scanning("newline")
    /\ SetTok(ArmNewline(TokState))
    /\ UNCHANGED <<line_flat, inl_vars, doc_vars, hd_vars>>

TokPunctuation ==
    /\ Scanning("punctuation")
    /\ SetTok(ArmPunctuation(TokState))
    /\ UNCHANGED <<line_flat, inl_vars, doc_vars, hd_vars>>

TokText ==
    /\ Scanning("text")
    /\ SetTok(ArmText(TokState))
    /\ UNCHANGED <<line_flat, inl_vars, doc_vars, hd_vars>>

TokEnd ==
    /\ tk_pc = "scan"
    /\ i >= Len(chars)
    /\ SetTok(TokenizeEnd(TokState))
    /\ UNCHANGED <<line_flat, inl_vars, doc_vars, hd_vars>>

\* the parser state ps that parse_inline returned, and its elements flattened
Parsed(ps) ==
    /\ line_flat' = IF ps.pc = "panic" THEN Panicked
                    ELSE flatten_inline(ps.parsed_inline_elements)
    /\ SetInl(ps)

\* parse_inline(tokenize(line)), flattened (parser/test.rs 18-27)
ParseLine ==
    /\ tk_pc = "done"
    /\ line_flat = NotParsed
    /\ Parsed(parse_inline(tokens))
    /\ UNCHANGED <<chars, i, tokens, buffer, reads, tk_pc, doc_vars, hd_vars>>

NextTok ==
    \/ TokEmphasis \/ TokBacktick \/ TokBackslash \/ TokDash \/ TokBracket
    \/ TokDigit \/ TokTab \/ TokSpace \/ TokNewline \/ TokPunctuation \/ TokText
    \/ TokEnd \/ ParseLine

SpecTok == InitTok /\ [][NextTok]_vars

(***************************************************************************)
(* parse_inline on a token vector                                          *)
(***************************************************************************)
InitInline ==
    /\ TokIdle
    /\ DocIdle
    /\ HdIdle
    /\ \E markdown_tokens \in InlineInputs : IsInl(InlineStart(markdown_tokens))

InlScanning(arm) ==
    /\ inl_pc = "scan"
    /\ cursor.current_position < Len(cursor.tokens)
    /\ InlineArmOf(TokenAt(cursor.tokens, cursor.current_position)) = arm

InlEmphasis ==
    /\ InlScanning("emphasis")
    /\ SetInl(InlineEmphasis(InlState, TokenAt(cursor.tokens, cursor.current_position)))
    /\ UNCHANGED <<tok_vars, doc_vars, hd_vars>>

InlLink ==
    /\ InlScanning("link")
    /\ SetInl(InlineLinkType(InlState, cursor.current_position, "Link"))
    /\ UNCHANGED <<tok_vars, doc_vars, hd_vars>>

InlCodeTick ==
    /\ InlScanning("code")
    /\ SetInl(InlineCodeTick(InlState))
    /\ UNCHANGED <<tok_vars, doc_vars, hd_vars>>

InlBang ==
    /\ InlScanning("bang")
    /\ SetInl(InlineBang(InlState))
    /\ UNCHANGED <<tok_vars, doc_vars, hd_vars>>

InlBuffered ==
    /\ InlScanning("buffered")
    /\ SetInl(InlineBuffered(InlState, TokenAt(cursor.tokens, cursor.current_position)))
    /\ UNCHANGED <<tok_vars, doc_vars, hd_vars>>

InlOther ==
    /\ InlScanning("other")
    /\ SetInl(InlineOther(InlState))
    /\ UNCHANGED <<tok_vars, doc_vars, hd_vars>>

InlEnd ==
    /\ inl_pc = "scan"
    /\ cursor.current_position >= Len(cursor.tokens)
    /\ SetInl(InlineEnd(InlState))
    /\ UNCHANGED <<tok_vars, doc_vars, hd_vars>>

ResolveBegin ==
    /\ inl_pc = "resolve"
    /\ rs_pc = "start"
    /\ SetInl(InlineResolve(InlState))
    /\ UNCHANGED <<tok_vars, doc_vars, hd_vars>>

ResolveOuterStep ==
    /\ inl_pc = "resolve"
    /\ rs_pc = "outer"
    /\ SetInl(InlineResolve(InlState))
    /\ UNCHANGED <<tok_vars, doc_vars, hd_vars>>

ResolveInnerStep ==
    /\ inl_pc = "resolve"
    /\ rs_pc = "inner"
    /\ SetInl(InlineResolve(InlState))
    /\ UNCHANGED <<tok_vars, doc_vars, hd_vars>>

ResolveFinish ==
    /\ inl_pc = "resolve"
    /\ rs_pc = "final"
    /\ SetInl(InlineResolve(InlState))
    /\ UNCHANGED <<tok_vars, doc_vars, hd_vars>>

NextInline ==
    \/ InlEmphasis \/ InlLink \/ InlCodeTick \/ InlBang \/ InlBuffered \/ InlOther
    \/ InlEnd
    \/ ResolveBegin \/ ResolveOuterStep \/ ResolveInnerStep \/ ResolveFinish

SpecInline == InitInline /\ [][NextInline]_vars

\* parse_inline is called on a token vector and runs on: a step of the parse
\* that can be taken is taken
InitCall ==
    /\ TokIdle
    /\ DocIdle
    /\ HdIdle
    /\ InlIdle

InlCall ==
    /\ inl_pc = "idle"
    /\ \E markdown_tokens \in CallInputs : SetInl(InlineStart(markdown_tokens))
    /\ UNCHANGED <<tok_vars, doc_vars, hd_vars>>

NextCall == InlCall \/ NextInline

SpecInlineFair == InitCall /\ [][NextCall]_vars /\ WF_vars(NextCall)


(***************************************************************************)
(* group_lines_to_blocks and parse_blocks on a document                     *)
(***************************************************************************)
InitDoc ==
    /\ TokIdle
    /\ InlIdle
    /\ HdIdle
    /\ tokenized_lines \in Docs
    /\ line_index = 0
    /\ blocks = GroupStart.blocks
    /\ is_inside_code_block = GroupStart.is_inside_code_block
    /\ current_block = GroupStart.current_block
    /\ block_elements = <<>>
    /\ doc_pc = "group"
    /\ table_src = NoTable

NextLine == tokenized_lines[line_index + 1]

Grouping(arm) ==
    /\ doc_pc = "group"
    /\ table_src = NoTable
    /\ line_index < Len(tokenized_lines)
    /\ GroupArmOf(GroupState, NextLine) = arm

DocInsideCode ==
    /\ Grouping("inside")
    /\ SetGroup(GroupInsideCode(GroupState, NextLine))
    /\ line_index' = line_index + 1
    /\ UNCHANGED <<hd_vars, tok_vars, inl_vars, tokenized_lines, block_elements, doc_pc, table_src>>

DocHeading ==
    /\ Grouping("heading")
    /\ SetGroup(PushCurrent(GroupHeading(GroupState, NextLine)))
    /\ line_index' = line_index + 1
    /\ UNCHANGED <<hd_vars, tok_vars, inl_vars, tokenized_lines, block_elements, doc_pc, table_src>>

DocDash ==
    /\ Grouping("dash")
    /\ SetGroup(PushCurrent(GroupDash(GroupState, NextLine)))
    /\ line_index' = line_index + 1
    /\ UNCHANGED <<hd_vars, tok_vars, inl_vars, tokenized_lines, block_elements, doc_pc, table_src>>

DocTab ==
    /\ Grouping("tab")
    /\ SetGroup(PushCurrent(GroupTab(GroupState, NextLine)))
    /\ line_index' = line_index + 1
    /\ UNCHANGED <<hd_vars, tok_vars, inl_vars, tokenized_lines, block_elements, doc_pc, table_src>>

DocOrdered ==
    /\ Grouping("ordered")
    /\ SetGroup(PushCurrent(GroupOrdered(GroupState, NextLine)))
    /\ line_index' = line_index + 1
    /\ UNCHANGED <<hd_vars, tok_vars, inl_vars, tokenized_lines, block_elements, doc_pc, table_src>>

DocThematic ==
    /\ Grouping("thematic")
    /\ SetGroup(PushCurrent(GroupThematic(GroupState, NextLine)))
    /\ line_index' = line_index + 1
    /\ UNCHANGED <<hd_vars, tok_vars, inl_vars, tokenized_lines, block_elements, doc_pc, table_src>>

DocCodeTick ==
    /\ Grouping("codetick")
    /\ SetGroup(PushCurrent(GroupCodeTick(GroupState, NextLine)))
    /\ line_index' = line_index + 1
    /\ UNCHANGED <<hd_vars, tok_vars, inl_vars, tokenized_lines, block_elements, doc_pc, table_src>>

DocCodeFence ==
    /\ Grouping("codefence")
    /\ SetGroup(PushCurrent(GroupCodeFence(GroupState, NextLine)))
    /\ line_index' = line_index + 1
    /\ UNCHANGED <<hd_vars, tok_vars, inl_vars, tokenized_lines, block_elements, doc_pc, table_src>>

DocEquals ==
    /\ Grouping("equals")
    /\ SetGroup(PushCurrent(GroupEquals(GroupState, NextLine)))
    /\ line_index' = line_index + 1
    /\ UNCHANGED <<hd_vars, tok_vars, inl_vars, tokenized_lines, block_elements, doc_pc, table_src>>

DocText ==
    /\ Grouping("text")
    /\ SetGroup(PushCurrent(GroupText(GroupState, NextLine)))
    /\ line_index' = line_index + 1
    /\ UNCHANGED <<hd_vars, tok_vars, inl_vars, tokenized_lines, block_elements, doc_pc, table_src>>

DocOther ==
    /\ Grouping("other")
    /\ SetGroup(PushCurrent(GroupOther(GroupState, NextLine)))
    /\ line_index' = line_index + 1
    /\ UNCHANGED <<hd_vars, tok_vars, inl_vars, tokenized_lines, block_elements, doc_pc, table_src>>

HasPanicBlock(elements) == \E k \in 1..Len(elements) : IsPanicBlock(elements[k])

DocParseBlocks ==
    /\ doc_pc = "group"
    /\ table_src = NoTable
    /\ line_index = Len(tokenized_lines)
    /\ \E checked \in BOOLEAN :
          LET elements == parse_blocks(blocks, checked)
          IN /\ block_elements' = elements
             /\ doc_pc' = IF HasPanicBlock(elements) THEN "panic" ELSE "done"
    /\ UNCHANGED <<hd_vars, tok_vars, inl_vars, tokenized_lines, line_index, blocks,
                   is_inside_code_block, current_block, table_src>>

NextDoc ==
    \/ DocInsideCode \/ DocHeading \/ DocDash \/ DocTab \/ DocOrdered \/ DocThematic
    \/ DocCodeTick \/ DocCodeFence \/ DocEquals \/ DocText \/ DocOther
    \/ DocParseBlocks

SpecDoc == InitDoc /\ [][NextDoc]_vars

(***************************************************************************)
(* A document that holds a pipe table                                       *)
(***************************************************************************)
InitTable ==
    /\ TokIdle
    /\ InlIdle
    /\ HdIdle
    /\ table_src \in TableSources
    /\ tokenized_lines = TableDoc(table_src)
    /\ line_index = 0
    /\ blocks = GroupStart.blocks
    /\ is_inside_code_block = GroupStart.is_inside_code_block
    /\ current_block = GroupStart.current_block
    /\ block_elements = <<>>
    /\ doc_pc = "group"

\* a line in front of the table
TablePrefixLine ==
    /\ doc_pc = "group"
    /\ table_src # NoTable
    /\ line_index < Len(tokenized_lines)
    /\ ~StartsTable(NextLine)
    /\ SetGroup(group_line_with_tables(GroupState, NextLine))
    /\ line_index' = line_index + 1
    /\ UNCHANGED <<hd_vars, tok_vars, inl_vars, tokenized_lines, block_elements, doc_pc, table_src>>

\* a row of the table
TableRowLine ==
    /\ doc_pc = "group"
    /\ table_src # NoTable
    /\ line_index < Len(tokenized_lines)
    /\ StartsTable(NextLine)
    /\ SetGroup(group_line_with_tables(GroupState, NextLine))
    /\ line_index' = line_index + 1
    /\ UNCHANGED <<hd_vars, tok_vars, inl_vars, tokenized_lines, block_elements, doc_pc, table_src>>

TableParseBlocks ==
    /\ doc_pc = "group"
    /\ table_src # NoTable
    /\ line_index = Len(tokenized_lines)
    /\ \E checked \in BOOLEAN : block_elements' = parse_blocks_with_tables(blocks, checked)
    /\ doc_pc' = "done"
    /\ UNCHANGED <<hd_vars, tok_vars, inl_vars, tokenized_lines, line_index, blocks,
                   is_inside_code_block, current_block, table_src>>

NextTable == TablePrefixLine \/ TableRowLine \/ TableParseBlocks

SpecTable == InitTable /\ [][NextTable]_vars

(***************************************************************************)
(* parse_heading on a line that starts with # tokens                        *)
(***************************************************************************)
\* what follows the run of # tokens: a heading text, a heading text with
\* hashes inside (parser/test.rs 399-411), only a Whitespace, a text right
\* after the run, another punctuation, the end of the line
HeadingTails ==
    {<<Whitespace, Text(<<"a">>)>>,
     <<Whitespace, Text(<<"a">>), Whitespace, Punctuation("#"), Text(<<"b">>)>>,
     <<Whitespace>>,
     <<Text(<<"a">>)>>,
     <<Punctuation("."), Whitespace>>,
     <<>>}

HeadingLines ==
    {[k \in 1..n |-> Punctuation("#")] \o tail : n \in 1..MaxHashes, tail \in HeadingTails}

InitHeading ==
    /\ TokIdle
    /\ InlIdle
    /\ DocIdle
    /\ \E line \in HeadingLines, checked \in BOOLEAN : IsHd(HeadingStart(line, checked))

\* parser.rs 269-271, 278: the token at i is a #
HeadingCountHash ==
    /\ hd_pc = "count"
    /\ hd_i < Len(hd_line)
    /\ hd_line[hd_i + 1] = Punctuation("#")
    /\ SetHd(HeadingIteration(HdState))
    /\ UNCHANGED <<tok_vars, inl_vars, doc_vars>>

\* parser.rs 267, 272-276: the token at i is no #, or the line has ended
HeadingBreak ==
    /\ hd_pc = "count"
    /\ ~(hd_i < Len(hd_line) /\ hd_line[hd_i + 1] = Punctuation("#"))
    /\ SetHd(HeadingIteration(HdState))
    /\ UNCHANGED <<tok_vars, inl_vars, doc_vars>>

\* parser.rs 282-286
HeadingParagraph ==
    /\ hd_pc = "counted"
    /\ ~IsHeading(hd_line, hd_i)
    /\ SetHd(HeadingEnd(HdState))
    /\ UNCHANGED <<tok_vars, inl_vars, doc_vars>>

\* parser.rs 288-291
HeadingHeader ==
    /\ hd_pc = "counted"
    /\ IsHeading(hd_line, hd_i)
    /\ SetHd(HeadingEnd(HdState))
    /\ UNCHANGED <<tok_vars, inl_vars, doc_vars>>

NextHeading == HeadingCountHash \/ HeadingBreak \/ HeadingParagraph \/ HeadingHeader

SpecHeading == InitHeading /\ [][NextHeading]_vars

(***************************************************************************)
(* Properties of parse_inline and resolve_emphasis                         *)
(***************************************************************************)
RECURSIVE HasPlaceholder(_)
HasPlaceholder(elements) ==
    \E k \in 1..Len(elements) :
        \/ elements[k].kind = "Placeholder"
        \/ HasPlaceholder(elements[k].children)

\* needle occurs in hay as a contiguous subsequence
Contains(hay, needle) ==
    \E k \in 0..(Len(hay) - Len(needle)) : SubSeq(hay, k + 1, k + Len(needle)) = needle

\* C1: when parse_inline has returned, the element tree holds no Placeholder,
\* neither at top level nor nested inside a Bold, an Italic or a Link.
C1_NoLeakedPlaceholder ==
    inl_pc = "done" => ~HasPlaceholder(parsed_inline_elements)

\* C2: parse_inline never fails: no slice or splice range of resolve_emphasis
\* leaves the bounds of the element vector, so no panic is reachable.
C2_ParseInlineNeverPanics ==
    inl_pc # "panic"

\* C3: when parse_inline has returned, every delimiter run that is still active
\* (unmatched, wholly or with leftover characters) stands in the output as a
\* Text of exactly run_length copies of its character at its position.
C3_UnmatchedRunIsLiteral ==
    inl_pc = "done" =>
        \A k \in 1..Len(delimiter_stack) :
            LET d == delimiter_stack[k]
            IN d.active =>
                /\ d.parsed_position < Len(parsed_inline_elements)
                /\ parsed_inline_elements[d.parsed_position + 1]
                       = TextEl(Repeat(d.ch, d.run_length))

BoldItalicText == <<"b", "o", "l", "d", " ", "+", " ", "i", "t", "a", "l", "i", "c">>

\* C4: the parse of the tokens of "***bold + italic***" is not a single Bold
\* wrapping an Italic, and the inner plain text "bold + italic" is present in it.
C4_MixedAsterisksKeepText ==
    (inl_pc = "done" /\ cursor.tokens = MixedAsterisks) =>
        /\ parsed_inline_elements # <<Bold(<<Italic(<<TextEl(BoldItalicText)>>)>>)>>
        /\ Contains(flatten_inline(parsed_inline_elements), BoldItalicText)

(***************************************************************************)
(* Properties of tokenize                                                  *)
(***************************************************************************)
\* C5: tokenize is total: it never panics, every index it reads (look-ahead
\* included) lies within the line, the scan index stays within the line and
\* strictly increases on every loop iteration (so the loop ends), and the empty
\* line yields exactly [Newline].
C5_TokenizeTotal ==
    /\ [](/\ tk_pc # "panic"
          /\ \A k \in reads : k < Len(chars)
          /\ i <= Len(chars)
          /\ (tk_pc = "done" /\ chars = <<>>) => tokens = <<Newline>>)
    /\ [][(tk_pc = "scan" /\ tk_pc' = "scan") => i' > i]_vars

\* a line was tokenized whose last grapheme opens a look-ahead
C5_Witness ==
    /\ tk_pc = "done"
    /\ Len(chars) >= 2
    /\ chars[Len(chars)] \in {Backtick, "-", "\\", " ", "1"}

IsPlainText(line) == \A k \in 1..Len(line) : line[k] \in {"a", " ", "\t"}

\* C8: for a plain-text line (letters, spaces and tabs, no markup character) the
\* flattened inline parse of its tokens is the line itself.
C8_PlainTextRoundTrip ==
    (line_flat # NotParsed /\ IsPlainText(chars)) => line_flat = chars

\* C9: no Text token of a tokenized line is empty, no two Text tokens are
\* adjacent, every Punctuation token holds one grapheme, and the ideograph
\* line gives one Text and one Punctuation.
C9_MaximalTextRuns ==
    tk_pc = "done" =>
        /\ \A k \in 1..Len(tokens) :
              /\ tokens[k].type = "Text" => tokens[k].s # <<>>
              /\ tokens[k].type = "Punctuation" => Len(tokens[k].s) = 1
        /\ \A k \in 1..(Len(tokens) - 1) :
              ~(tokens[k].type = "Text" /\ tokens[k + 1].type = "Text")
        /\ chars = UnicodeLine =>
              tokens = <<Text(SubSeq(UnicodeLine, 1, 7)), Punctuation("IdeographicFullStop")>>

\* C10 as stated: the token vector that tokenize returns ends with Newline.
C10_EndsWithNewline ==
    tk_pc = "done" => (tokens # <<>> /\ tokens[Len(tokens)] = Newline)

NewlineTokens == {k \in 1..Len(tokens) : tokens[k] = Newline}
EscapedNewlines == {k \in 1..Len(tokens) : tokens[k] = Escape("\n")}
NewlineGraphemes == {k \in 1..Len(chars) : chars[k] = "\n"}

\* C10 amended: the empty line yields exactly [Newline]; for a non-empty line no
\* Newline is appended at the end of the line: every Newline token stands for a
\* newline grapheme of the line (one that no backslash escapes), so a line
\* without a newline grapheme yields no Newline token.
C10_NewlineOnlyFromLine ==
    tk_pc = "done" =>
        /\ chars = <<>> => tokens = <<Newline>>
        /\ chars # <<>> =>
              Cardinality(NewlineTokens) + Cardinality(EscapedNewlines)
                  = Cardinality(NewlineGraphemes)

\* a non-empty line was tokenized and its last token is not Newline
C10_Witness ==
    /\ tk_pc = "done"
    /\ chars # <<>>
    /\ tokens # <<>>
    /\ tokens[Len(tokens)] # Newline

(***************************************************************************)
(* Properties of list parsing                                              *)
(***************************************************************************)
\* the first group starts with an item line that Tab-led lines follow
ListLines == SplitNewline(blocks[1])
OuterKind ==
    IF ListLines[1] # <<>> /\ ListLines[1][1].type = "OrderedListMarker"
    THEN "OrderedList" ELSE "UnorderedList"
NestedRun == NestedEnd(ListLines, 1) - 1
NestedCase ==
    /\ doc_pc = "done"
    /\ blocks # <<>>
    /\ blocks[1] # <<>>
    /\ blocks[1][1] = Punctuation("-") \/ blocks[1][1].type = "OrderedListMarker"
    /\ is_list_item(OuterKind, ListLines[1])
    /\ NestedRun >= 1
FirstNested == StripTabs(ListLines[2])
ExpectedNestedKind ==
    IF FirstNested # <<>> /\ FirstNested[1].type = "OrderedListMarker"
    THEN "OrderedList" ELSE "UnorderedList"
\* the nested lines that are item lines of the nested list
NestedItemLines ==
    {n \in 2..(NestedRun + 1) : is_list_item(ExpectedNestedKind, StripTabs(ListLines[n]))}
\* the list has the item, the nested list, and the next item when one follows
NestedShape(list) ==
    /\ list.kind = OuterKind
    /\ Len(list.items) >= 2
    /\ list.items[1].kind = "Paragraph"
    /\ list.items[2].kind = ExpectedNestedKind
    /\ (Len(ListLines) >= NestedRun + 2
            /\ is_list_item(OuterKind, ListLines[NestedRun + 2]))
         => (Len(list.items) >= 3 /\ list.items[3].kind = "Paragraph")

\* C6 as stated: an item line followed by k Tab-led lines gives the item and then
\* one item that is a nested list holding k items, and the scan resumes after
\* the nested run.
C6_NestedListHoldsEveryLine ==
    NestedCase =>
        /\ NestedShape(block_elements[1])
        /\ Len(block_elements[1].items[2].items) = NestedRun

\* C6 amended: an item line followed by k Tab-led lines gives the item and then
\* one item that is a nested list (ordered if the first nested line, without its
\* leading Tabs, starts with an ordered marker, otherwise unordered) holding one
\* item for every nested line that, without its leading Tabs, starts with the
\* marker of the nested list and a Whitespace; the scan resumes after the nested
\* run; the four example lines give 3 items whose middle item is a list of 2.
C6_NestedListHoldsItemLines ==
    /\ NestedCase =>
          /\ NestedShape(block_elements[1])
          /\ Len(block_elements[1].items[2].items) = Cardinality(NestedItemLines)
    /\ (doc_pc = "done" /\ tokenized_lines = NestedListExample) =>
          /\ Len(block_elements) = 1
          /\ block_elements[1].kind = "UnorderedList"
          /\ Len(block_elements[1].items) = 3
          /\ block_elements[1].items[2].kind = "UnorderedList"
          /\ Len(block_elements[1].items[2].items) = 2

\* the example document was parsed: two nested lines, then the outer list resumed
C6_Witness ==
    /\ NestedCase
    /\ tokenized_lines = NestedListExample
    /\ NestedRun = 2
    /\ Len(block_elements[1].items) = 3

(***************************************************************************)
(* Properties of table parsing                                             *)
(***************************************************************************)
TableElements == {k \in 1..Len(block_elements) : block_elements[k].kind = "Table"}

\* C7: a pipe table parses to one Table with one header cell per column and one
\* body row per body line (the alignment row is no body row); every header cell
\* and body cell has the alignment that the alignment row gives its column; a
\* body row may have fewer cells than the header.
C7_TableShape ==
    (doc_pc = "done" /\ table_src # NoTable) =>
        /\ Cardinality(TableElements) = 1
        /\ LET table == block_elements[Len(block_elements)]
           IN /\ table.kind = "Table"
              /\ Len(table.headers) = Len(table_src.alignments)
              /\ \A c \in 1..Len(table.headers) :
                    /\ table.headers[c].alignment = table_src.alignments[c]
                    /\ table.headers[c].is_header
              /\ Len(table.body) = Len(table_src.rows)
              /\ \A r \in 1..Len(table.body) :
                    /\ Len(table.body[r]) = table_src.rows[r]
                    /\ \A c \in 1..Len(table.body[r]) :
                          /\ table.body[r][c].alignment = table_src.alignments[c]
                          /\ ~table.body[r][c].is_header

\* a table of three columns with mixed alignment and a short row was parsed
C7_Witness ==
    /\ doc_pc = "done"
    /\ table_src.alignments = <<"Left", "Center", "Right">>
    /\ table_src.rows = <<3, 1>>
    /\ Len(block_elements[Len(block_elements)].body) = 2

(***************************************************************************)
(* Tokenization keeps the text of the line                                  *)
(***************************************************************************)
\* the literal source text of a token that starts at index p (0-based) of the line
SourceText(t, line, p) ==
    CASE t.type \in {"Text", "Punctuation", "OrderedListMarker"} -> t.s
      [] t.type = "EmphasisRun" -> Repeat(t.s[1], t.n)
      [] t.type = "OpenBracket" -> <<"[">>
      [] t.type = "CloseBracket" -> <<"]">>
      [] t.type = "OpenParenthesis" -> <<"(">>
      [] t.type = "CloseParenthesis" -> <<")">>
      [] t.type = "CodeTick" -> <<Backtick>>
      [] t.type = "CodeFence" -> <<Backtick, Backtick, Backtick>>
      [] t.type = "ThematicBreak" -> <<"-", "-", "-">>
      [] t.type = "Escape" -> <<"\\">> \o t.s
      [] t.type = "Whitespace" -> <<" ">>
      [] t.type = "Tab" -> IF p < Len(line) /\ line[p + 1] = "\t" THEN <<"\t">>
                           ELSE <<" ", " ", " ", " ">>
      [] t.type = "Newline" -> <<"\n">>
      [] OTHER -> <<>>

\* the source texts of the tokens from the k-th on, the k-th starting at index p
RECURSIVE RerenderFrom(_, _, _, _)
RerenderFrom(toks, k, line, p) ==
    IF k > Len(toks) THEN <<>>
    ELSE SourceText(toks[k], line, p)
         \o RerenderFrom(toks, k + 1, line, p + Len(SourceText(toks[k], line, p)))

Rerender(toks, line) == RerenderFrom(toks, 1, line, 0)

\* C11: tokenization is lossless: for every non-empty line, the literal source
\* texts of its tokens (a Tab as the tab or the four spaces it was read from, a
\* Newline as the newline grapheme), concatenated in order, are the line.
C11_TokenizeLossless ==
    (tk_pc = "done" /\ chars # <<>>) => Rerender(tokens, chars) = chars

\* a line of both brackets and both parentheses was tokenized: the four tokens
\* give back the line
C11_Witness ==
    /\ tk_pc = "done"
    /\ chars = <<"[", "]", "(", ")">>
    /\ tokens = <<OpenBracket, CloseBracket, OpenParenthesis, CloseParenthesis>>
    /\ Rerender(tokens, chars) = chars

\* a line that starts with an ordered-list marker was tokenized: the marker,
\* the Whitespace after it and one more token give back the line
C11_MarkerWitness ==
    /\ tk_pc = "done"
    /\ Len(chars) = 4
    /\ Len(tokens) = 3
    /\ tokens[1].type = "OrderedListMarker"
    /\ tokens[2] = Whitespace
    /\ Rerender(tokens, chars) = chars

(***************************************************************************)
(* Backslash escapes                                                       *)
(***************************************************************************)
\* the index (0-based) of the line at which the k-th token starts
StartOf(k) == Len(RerenderFrom(SubSeq(tokens, 1, k - 1), 1, chars, 0))

\* the positions (1-based) of the backslashes that start an Escape token
EscapeStarts == {StartOf(k) + 1 : k \in {k \in 1..Len(tokens) : tokens[k].type = "Escape"}}

\* position q holds a backslash that a grapheme follows and that no backslash
\* before it escapes
RECURSIVE IsEscaping(_, _)
IsEscaping(line, q) ==
    /\ line[q] = "\\"
    /\ q < Len(line)
    /\ ~(q > 1 /\ IsEscaping(line, q - 1))

\* C12: a backslash followed by a grapheme g is tokenized as Escape(g), and g
\* is part of no other token (no EmphasisRun holds an escaped character, and
\* parse_inline pushes a Delimiter for EmphasisRun tokens only); a backslash that
\* the scan reaches as the last grapheme of the line is the Text "\"; the
\* output of parse_inline holds backslash and g for every Escape(g) of the
\* line, and the line \*escaped char\* parses to one Text that is the line.
C12_EscapeIsLiteral ==
    /\ (tk_pc = "done" /\ chars # <<>>) =>
          /\ EscapeStarts = {q \in 1..Len(chars) : IsEscaping(chars, q)}
          /\ \A k \in 1..Len(tokens) :
                /\ tokens[k].type = "Escape" =>
                      /\ StartOf(k) + 2 <= Len(chars)
                      /\ chars[StartOf(k) + 1] = "\\"
                      /\ tokens[k].s = <<chars[StartOf(k) + 2]>>
                /\ tokens[k].type = "EmphasisRun" =>
                      \A q \in (StartOf(k) + 1)..(StartOf(k) + tokens[k].n) :
                          (q - 1) \notin EscapeStarts
          /\ (chars[Len(chars)] = "\\" /\ (Len(chars) - 1) \notin EscapeStarts) =>
                tokens[Len(tokens)] = Text(<<"\\">>)
    /\ (line_flat \notin {NotParsed, Panicked}) =>
          /\ \A k \in 1..Len(delimiter_stack) :
                tokens[delimiter_stack[k].token_position + 1].type = "EmphasisRun"
          /\ \A k \in 1..Len(tokens) :
                tokens[k].type = "Escape" => Contains(line_flat, <<"\\">> \o tokens[k].s)
          /\ chars = EscapeExample => parsed_inline_elements = <<TextEl(EscapeExample)>>

\* the example line was parsed, with an Escape at each end
C12_Witness ==
    /\ line_flat \notin {NotParsed, Panicked}
    /\ chars = EscapeExample
    /\ tokens[1] = Escape("*")
    /\ tokens[Len(tokens)] = Escape("*")
    /\ delimiter_stack = <<>>

\* a line that ends in a backslash which nothing escapes was tokenized
C12_TrailingWitness ==
    /\ tk_pc = "done"
    /\ Len(chars) >= 2
    /\ chars[Len(chars)] = "\\"
    /\ (Len(chars) - 1) \notin EscapeStarts

(***************************************************************************)
(* Links that fail to parse                                                 *)
(***************************************************************************)
\* the source text of a token vector (a Tab as four spaces)
TokensSource(toks) == RerenderFrom(toks, 1, <<>>, 0)

\* the bracket at the head of toks has its label, its target and both closers
HasLinkShape(toks) ==
    \E k \in 2..Len(toks) :
        /\ toks[k] = CloseBracket
        /\ \A m \in 2..(k - 1) : toks[m] # CloseBracket
        /\ k < Len(toks)
        /\ toks[k + 1] = OpenParenthesis
        /\ \E m \in (k + 2)..Len(toks) : toks[m] = CloseParenthesis

\* toks start with a bracket whose link fails structurally; the label holds
\* text, spaces and punctuation only
FailedLink(toks) ==
    /\ toks # <<>>
    /\ toks[1] = OpenBracket
    /\ \A k \in 2..Len(toks) :
          toks[k].type \in {"Text", "Whitespace", "Punctuation", "CloseBracket",
                             "OpenParenthesis", "CloseParenthesis"}
    /\ ~HasLinkShape(toks)

\* C13: when the link at the head of the tokens fails structurally (no closing
\* bracket, no parenthesis right after it, or no closing parenthesis), the
\* flattened output of parse_inline is the source text of the tokens: nothing
\* that follows the failed construct is skipped and no character is added.
C13_FailedLinkKeepsSource ==
    (inl_pc = "done" /\ FailedLink(cursor.tokens)) =>
        flatten_inline(parsed_inline_elements) = TokensSource(cursor.tokens)

(***************************************************************************)
(* Properties of parse_heading                                             *)
(***************************************************************************)
\* the content that parse_inline gives for the tokens
InlineContent(toks) == parse_inline(toks).parsed_inline_elements

\* C14: for a line whose first n >= 1 tokens are # tokens, parse_heading
\* returns (it does not fail), and what it returns is: when a Whitespace
\* follows the run, the Header of level exactly n whose content is parse_inline
\* of the tokens after that Whitespace; otherwise the Paragraph whose content is
\* parse_inline of the whole line.
C14_HeadingLevelIsCount ==
    /\ hd_pc # "panic"
    /\ hd_pc = "done" =>
          hd_block = IF IsHeading(hd_line, HeadingLevel(hd_line, 0))
                     THEN Header(HeadingLevel(hd_line, 0),
                                 InlineContent(SubSeq(hd_line, HeadingLevel(hd_line, 0) + 2,
                                                      Len(hd_line))))
                     ELSE Paragraph(InlineContent(hd_line))

(***************************************************************************)
(* Properties of fenced code blocks                                        *)
(***************************************************************************)
\* the next line is consumed while a fence is open, and it does not start with
\* CodeFence
CodeLineStep ==
    /\ doc_pc = "group"
    /\ is_inside_code_block
    /\ line_index' = line_index + 1
    /\ ~(NextLine # <<>> /\ NextLine[1] = CodeFence)

\* C15: while a fence is open the last group is the code block's group (it
\* starts with the CodeFence of the opening line), and every line that does not
\* start with CodeFence, whatever its leading token, is appended with a
\* trailing Newline to that group: the number of groups and every other group
\* stay as they are and the fence stays open.
C15_CodeLinesJoinTheFence ==
    /\ [](is_inside_code_block => (blocks # <<>> /\ blocks[Len(blocks)][1] = CodeFence))
    /\ [][CodeLineStep =>
            /\ Len(blocks') = Len(blocks)
            /\ blocks' = ReplaceLast(blocks, blocks[Len(blocks)] \o NextLine \o <<Newline>>)
            /\ is_inside_code_block']_vars

\* a heading line and a list line were taken into the group of an open fence
C15_Witness ==
    /\ is_inside_code_block
    /\ line_index = 3
    /\ tokenized_lines[1] = <<CodeFence>>
    /\ tokenized_lines[2][1] = Punctuation("#")
    /\ tokenized_lines[3][1] = Punctuation("-")
    /\ blocks = <<(<<CodeFence>> \o tokenized_lines[2] \o <<Newline>>
                   \o tokenized_lines[3] \o <<Newline>>)>>

\* the document is one fenced code block: an opening fence line, code lines
\* that do not start with CodeFence, the closing fence line
FencedDoc(lines) ==
    /\ Len(lines) >= 2
    /\ lines[1] # <<>>
    /\ lines[1][1] = CodeFence
    /\ lines[Len(lines)] = <<CodeFence>>
    /\ \A k \in 2..(Len(lines) - 1) : lines[k][1] # CodeFence

\* the text immediately after the fence of the opening line, empty for None
FenceLanguage(fence_line) ==
    IF Len(fence_line) >= 2 /\ fence_line[2].type = "Text" THEN fence_line[2].s ELSE <<>>

\* the source text of a code line (the blank line is tokenized to one Newline)
CodeLineSource(line) == IF line = <<Newline>> THEN <<>> ELSE TokensSource(line)

\* C16: a document that is one fenced code block parses to one CodeBlock whose
\* language is the text right after the opening fence (None without such a
\* text: the first code line is not the language) and whose lines are the code
\* lines between the fences, literally, one entry per line in order, a leading
\* Tab as four spaces.
C16_CodeBlockKeepsLines ==
    (doc_pc = "done" /\ FencedDoc(tokenized_lines)) =>
        block_elements =
            <<CodeBlock(FenceLanguage(tokenized_lines[1]),
                        [k \in 1..(Len(tokenized_lines) - 2) |->
                            CodeLineSource(tokenized_lines[k + 1])])>>

(***************************************************************************)
(* Properties of the pairings of resolve_emphasis                          *)
(***************************************************************************)
\* the closer and the opener candidate as they stand in the delimiter stack
StackCloser == delimiter_stack[rs_i + 1]
StackOpener == delimiter_stack[rs_j + 1]

\* a step of the backward scan that pairs the closer with the opener at index
\* j: the run of the opener gets shorter
Paired ==
    /\ inl_pc = "resolve"
    /\ rs_pc = "inner"
    /\ rs_j >= 0
    /\ delimiter_stack'[rs_j + 1].run_length < StackOpener.run_length

\* either delimiter can both open and close, the sum of the run lengths is
\* divisible by 3 and neither run length is
ThreeRuleApplies(a, b) ==
    /\ (a.can_open /\ a.can_close) \/ (b.can_open /\ b.can_close)
    /\ (a.run_length + b.run_length) % 3 = 0
    /\ a.run_length % 3 # 0
    /\ b.run_length % 3 # 0

\* C17: no pairing joins an opener and a closer for which, with the run lengths
\* that remain in the delimiter stack at the time of the pairing, the rule of
\* three applies.
C17_NoPairAgainstRuleOfThree ==
    [][Paired => ~ThreeRuleApplies(StackCloser, StackOpener)]_vars

\* the non-placeholder elements of a tree of inline elements, in order; a
\* Bold or an Italic stands for its content
RECURSIVE Leaves(_)
Leaves(elements) ==
    IF elements = <<>> THEN <<>>
    ELSE LET e == Head(elements)
             piece == CASE e.kind = "Placeholder" -> <<>>
                        [] e.kind \in {"Bold", "Italic"} -> Leaves(e.children)
                        [] OTHER -> <<e>>
         IN piece \o Leaves(Tail(elements))

\* the last n elements of a vector
Suffix(v, n) == SubSeq(v, Len(v) - n + 1, Len(v))

\* the pairing wraps the elements strictly between the two placeholders and
\* leaves the elements before the opener's and after the closer's alone
WrapsInnerRange ==
    LET op == StackOpener.parsed_position
        cp == StackCloser.parsed_position
        used == DelimitersUsed(StackCloser, StackOpener)
        after == Len(parsed_inline_elements) - cp - 1
    IN /\ op < cp
       /\ cp < Len(parsed_inline_elements)
       /\ Len(parsed_inline_elements') >= op + after + 1
       /\ SubSeq(parsed_inline_elements', 1, op) = SubSeq(parsed_inline_elements, 1, op)
       /\ Suffix(parsed_inline_elements', after) = Suffix(parsed_inline_elements, after)
       /\ \E w \in (op + 1)..(Len(parsed_inline_elements') - after) :
            /\ parsed_inline_elements'[w].kind = IF used = 2 THEN "Bold" ELSE "Italic"
            /\ parsed_inline_elements'[w].children =
                   SubSeq(parsed_inline_elements, op + 2, cp)
       /\ Leaves(parsed_inline_elements') = Leaves(parsed_inline_elements)

\* the final replacement of the placeholders of active delimiters
FinalReplacement ==
    /\ inl_pc = "resolve"
    /\ rs_pc \in {"start", "final"}
    /\ rs_pc' = "done"

\* every element that is not a placeholder stays where and what it was
KeepsElements ==
    /\ Len(parsed_inline_elements') = Len(parsed_inline_elements)
    /\ \A k \in 1..Len(parsed_inline_elements) :
            parsed_inline_elements[k].kind # "Placeholder"
                => parsed_inline_elements'[k] = parsed_inline_elements[k]

\* C18: each pairing wraps exactly the elements strictly between the opener's
\* and the closer's placeholders, in order, into one Bold or Italic and leaves
\* the elements outside alone; neither the splice nor the final replacement of
\* active placeholders drops, duplicates or overwrites another element.
C18_SpliceWrapsInnerRange ==
    /\ [][Paired => WrapsInnerRange]_vars
    /\ [][FinalReplacement => KeepsElements]_vars

\* the delimiter at index k of the stack records the index of a placeholder
PointsAtPlaceholder(k) ==
    /\ delimiter_stack[k].parsed_position < Len(parsed_inline_elements)
    /\ parsed_inline_elements[delimiter_stack[k].parsed_position + 1].kind = "Placeholder"

\* C19: throughout resolve_emphasis every active delimiter records a valid
\* index of the element vector, the element there is a Placeholder, and no two
\* active delimiters record the same index.
C19_ActiveDelimitersPointAtPlaceholders ==
    (inl_pc = "resolve" /\ rs_pc \in {"outer", "inner", "final"}) =>
        \A k \in 1..Len(delimiter_stack) :
            delimiter_stack[k].active =>
                /\ PointsAtPlaceholder(k)
                /\ \A m \in 1..Len(delimiter_stack) :
                       (m # k /\ delimiter_stack[m].active) =>
                           delimiter_stack[m].parsed_position
                               # delimiter_stack[k].parsed_position

\* the pairing takes the number of characters that the remaining run lengths
\* give from both runs, and both delimiters were active
ConsumesFromBoth ==
    LET used == DelimitersUsed(StackCloser, StackOpener)
    IN /\ StackCloser.active
       /\ StackOpener.active
       /\ StackCloser.run_length >= used
       /\ StackOpener.run_length >= used
       /\ delimiter_stack'[rs_i + 1].run_length = StackCloser.run_length - used
       /\ delimiter_stack'[rs_j + 1].run_length = StackOpener.run_length - used

\* C20: each pairing consumes delimiters_used characters, computed from the
\* remaining run lengths, from both the opener and the closer; no subtraction
\* goes below zero; a delimiter with no characters left is inactive and takes
\* part in no later pairing, also not as the closer of the same backward scan.
C20_PairingConsumesRemainingRuns ==
    /\ [][Paired => ConsumesFromBoth]_vars
    /\ [](inl_pc = "resolve" =>
            \A k \in 1..Len(delimiter_stack) :
                delimiter_stack[k].run_length = 0 => ~delimiter_stack[k].active)

(***************************************************************************)
(* Flanking of the delimiter runs                                          *)
(***************************************************************************)
\* what stands at 0-based index p of toks: nothing, whitespace, punctuation or
\* another token
NeighbourKind(toks, p) ==
    IF p < 0 \/ p >= Len(toks) THEN "none"
    ELSE IF toks[p + 1].type \in {"Newline", "Whitespace"} THEN "whitespace"
    ELSE IF toks[p + 1].type \in {"Punctuation", "EmphasisRun", "OpenBracket", "CloseBracket",
                                  "OpenParenthesis", "CloseParenthesis"}
         THEN "punctuation"
    ELSE "other"

\* the start and the end of the line count as whitespace
LeftFlanking(before, after) ==
    /\ after \notin {"none", "whitespace"}
    /\ after # "punctuation" \/ before \in {"none", "whitespace", "punctuation"}

RightFlanking(before, after) == LeftFlanking(after, before)

\* the flags of a delimiter of character ch between the two neighbours
CanOpen(ch, before, after) ==
    IF ch = "_"
    THEN LeftFlanking(before, after)
             /\ (~RightFlanking(before, after) \/ after = "punctuation")
    ELSE LeftFlanking(before, after)

CanClose(ch, before, after) ==
    IF ch = "_"
    THEN RightFlanking(before, after)
             /\ (~LeftFlanking(before, after) \/ before = "punctuation")
    ELSE RightFlanking(before, after)

\* the neighbours of the delimiter at index k of the stack
BeforeOf(k) == NeighbourKind(cursor.tokens, delimiter_stack[k].token_position - 1)
AfterOf(k) == NeighbourKind(cursor.tokens, delimiter_stack[k].token_position + 1)

\* C21: once parse_inline has classified the delimiters, each delimiter is
\* left-flanking iff it is not followed by whitespace and is either not followed
\* by punctuation or preceded by whitespace or punctuation, right-flanking the
\* same with the neighbours swapped; a '*' opens iff left-flanking and closes
\* iff right-flanking; a '_' opens iff left-flanking and (not right-flanking or
\* followed by punctuation) and closes iff right-flanking and (not
\* left-flanking or preceded by punctuation); a '_' between two ordinary
\* tokens neither opens nor closes.
C21_FlankingFlags ==
    inl_pc \in {"resolve", "done", "panic"} =>
        \A k \in 1..Len(delimiter_stack) :
            /\ delimiter_stack[k].can_open
                   = CanOpen(delimiter_stack[k].ch, BeforeOf(k), AfterOf(k))
            /\ delimiter_stack[k].can_close
                   = CanClose(delimiter_stack[k].ch, BeforeOf(k), AfterOf(k))
            /\ (delimiter_stack[k].ch = "_" /\ BeforeOf(k) = "other" /\ AfterOf(k) = "other")
                   => ~delimiter_stack[k].can_open /\ ~delimiter_stack[k].can_close

\* an underscore between two texts and an asterisk run after a text at the end
\* of the tokens were classified
C21_Witness ==
    /\ inl_pc = "resolve"
    /\ rs_pc = "start"
    /\ Len(delimiter_stack) = 2
    /\ delimiter_stack[1].ch = "_"
    /\ BeforeOf(1) = "other"
    /\ AfterOf(1) = "other"
    /\ delimiter_stack[2].ch = "*"
    /\ BeforeOf(2) = "other"
    /\ AfterOf(2) = "none"

(***************************************************************************)
(* Ordered list markers                                                    *)
(***************************************************************************)
\* C22: every OrderedListMarker of a tokenized line stands for a digit that
\* the dot and a space follow, and the digit is the first grapheme of the line
\* or the token right before the marker is a Tab; a digit elsewhere, such as
\* after a text that follows a Tab, gives no marker.
C22_MarkerOnlyAtStartOrAfterTab ==
    (tk_pc = "done" /\ chars # <<>>) =>
        \A k \in 1..Len(tokens) :
            tokens[k].type = "OrderedListMarker" =>
                /\ StartOf(k) + 3 <= Len(chars)
                /\ tokens[k].s = <<chars[StartOf(k) + 1], ".">>
                /\ chars[StartOf(k) + 2] = "."
                /\ chars[StartOf(k) + 3] = " "
                /\ k = 1 \/ tokens[k - 1].type = "Tab"

(***************************************************************************)
(* Setext headings and ATX headings in group_lines_to_blocks                *)
(***************************************************************************)
\* the next line is grouped outside a fenced code block
LineStep ==
    /\ doc_pc = "group"
    /\ ~is_inside_code_block
    /\ line_index' = line_index + 1

\* a lone dash, or a line that starts with ThematicBreak
IsSetextTwoLine(line) ==
    line = <<Punctuation("-")>> \/ (line # <<>> /\ line[1] = ThematicBreak)

\* the group is a list, an ordered list, a fenced code block, a heading or a
\* blank line
IsMarkedGroup(block) ==
    /\ block # <<>>
    /\ \/ StartsUnorderedList(block)
       \/ block[1].type = "OrderedListMarker"
       \/ block[1] = CodeFence
       \/ block[1] = Punctuation("#")
       \/ block[1] = Newline

\* C23: when a lone dash or a ThematicBreak-leading line comes after a group
\* that is a list, an ordered list, a fenced code block, a heading or a blank
\* line, that group and all others stay as they are and the line becomes a
\* group of its own; '#', '#', Whitespace are prepended to plain text only.
C23_SetextTwoOnlyOnPlainText ==
    [][(LineStep /\ IsSetextTwoLine(NextLine) /\ IsMarkedGroup(PreviousBlock(blocks)))
          => blocks' = Append(blocks, NextLine)]_vars

\* the text of the line begins with '='
BeginsWithEquals(line) ==
    /\ line # <<>>
    /\ line[1].type = "Text"
    /\ line[1].s # <<>>
    /\ line[1].s[1] = "="

\* C24: when a line whose text begins with '=' comes after a group of plain
\* text, '#' and Whitespace are prepended to that group, no group is added and
\* the line goes into no group.
C24_EqualsUnderlineMakesHeadingOne ==
    [][(LineStep /\ BeginsWithEquals(NextLine) /\ blocks # <<>>
            /\ PreviousBlock(blocks)[1].type = "Text")
          => blocks' = ReplaceLast(blocks, SetextOne(PreviousBlock(blocks)))]_vars

\* a line is consumed by the grouper
AnyLineStep ==
    /\ doc_pc = "group"
    /\ line_index' = line_index + 1

\* C25: outside a fenced code block a '#'-leading line becomes a new group and
\* the groups before it stay as they are; no later line, whatever arm it takes,
\* changes or extends a group that begins with '#'.
C25_HeadingsNeverMerge ==
    /\ [][(LineStep /\ NextLine # <<>> /\ NextLine[1] = Punctuation("#"))
            => blocks' = Append(blocks, NextLine)]_vars
    /\ [][AnyLineStep =>
            \A k \in 1..Len(blocks) :
                (blocks[k] # <<>> /\ blocks[k][1] = Punctuation("#"))
                    => (Len(blocks') >= k /\ blocks'[k] = blocks[k])]_vars

\* a heading line was followed by a second heading line, a lone dash and a
\* text line: four groups
C25_Witness ==
    /\ doc_pc = "group"
    /\ line_index = 4
    /\ tokenized_lines[1][1] = Punctuation("#")
    /\ tokenized_lines[2][1] = Punctuation("#")
    /\ tokenized_lines[3] = <<Punctuation("-")>>
    /\ tokenized_lines[4][1].type = "Text"
    /\ blocks = SubSeq(tokenized_lines, 1, 4)

(***************************************************************************)
(* Nesting of lists                                                        *)
(***************************************************************************)
\* the number of Tab tokens at the head of a line
RECURSIVE LeadingTabs(_)
LeadingTabs(line) ==
    IF line # <<>> /\ line[1] = Tab THEN 1 + LeadingTabs(Tail(line)) ELSE 0

\* the line is a list item behind n Tabs
IsItemAtDepth(line, n) ==
    /\ LeadingTabs(line) = n
    /\ LET item == SubSeq(line, n + 1, Len(line))
       IN StartsUnorderedList(item) \/ StartsOrderedList(item)

\* how deep lists are nested in a block: 0 for a block that is no list
RECURSIVE ListDepth(_)
ListDepth(block) ==
    IF block.kind \notin {"UnorderedList", "OrderedList"} THEN 0
    ELSE LET depths == {ListDepth(block.items[k]) : k \in 1..Len(block.items)}
         IN 1 + (IF depths = {} THEN 0
                 ELSE CHOOSE m \in depths : \A d \in depths : d <= m)

\* C26: when the first line of a list is followed by an item behind one Tab and
\* that by an item behind two Tabs, the item behind two Tabs is parsed as a list
\* inside the nested list: the parsed list is three lists deep.
C26_TwoTabsNestTwice ==
    (/\ doc_pc = "done"
     /\ Len(tokenized_lines) >= 3
     /\ IsItemAtDepth(tokenized_lines[1], 0)
     /\ IsItemAtDepth(tokenized_lines[2], 1)
     /\ IsItemAtDepth(tokenized_lines[3], 2))
        => /\ block_elements # <<>>
           /\ ListDepth(block_elements[1]) >= 3

(***************************************************************************)
(* The URL of a link                                                       *)
(***************************************************************************)
\* toks are a link or an image and nothing else: the bracket at index b, the
\* first CloseBracket at index k with '(' after it, ')' as the last token and
\* neither Whitespace nor ')' in between
IsWholeLink(toks, b, k) ==
    /\ b \in {1, 2}
    /\ b = 2 => toks[1] = Punctuation("!")
    /\ Len(toks) >= b + 3
    /\ toks[b] = OpenBracket
    /\ k \in (b + 1)..(Len(toks) - 2)
    /\ toks[k] = CloseBracket
    /\ \A m \in (b + 1)..(k - 1) : toks[m] # CloseBracket
    /\ toks[k + 1] = OpenParenthesis
    /\ toks[Len(toks)] = CloseParenthesis
    /\ \A m \in (k + 2)..(Len(toks) - 1) : toks[m] \notin {Whitespace, CloseParenthesis}

\* C27: when the tokens are a link or an image whose URL holds no Whitespace,
\* parse_inline returns that one element and its url is the source text of
\* every token between '(' and ')'.
C27_UrlKeepsEveryToken ==
    inl_pc = "done" =>
        \A b \in {1, 2} : \A k \in 1..Len(cursor.tokens) :
            IsWholeLink(cursor.tokens, b, k) =>
                /\ Len(parsed_inline_elements) = 1
                /\ parsed_inline_elements[1].kind = IF b = 2 THEN "Image" ELSE "Link"
                /\ parsed_inline_elements[1].url
                       = TokensSource(SubSeq(cursor.tokens, k + 2, Len(cursor.tokens) - 1))

(***************************************************************************)
(* Termination                                                             *)
(***************************************************************************)
\* an iteration of the loop of parse_inline
ScanIteration ==
    /\ inl_pc = "scan"
    /\ cursor.current_position < Len(cursor.tokens)

\* every iteration moves the cursor forward and never past the end
CursorAdvances ==
    [][ScanIteration => /\ cursor'.current_position > cursor.current_position
                        /\ cursor'.current_position <= Len(cursor.tokens)]_vars

\* parse_inline comes to an end: it returns, or it stops in a panic of
\* resolve_emphasis
ParsingEnds == <>(inl_pc \in {"done", "panic"})

\* parse_inline was called
Called == inl_pc # "idle"

\* C28: in every iteration of parse_inline (with the loops of parse_link_type
\* and parse_code_span inside it) the cursor moves forward, and parse_inline
\* returns for every token vector.
C28_ParsingReturns ==
    /\ CursorAdvances
    /\ Called ~> (inl_pc = "done")

(***************************************************************************)
(* TokenCursor                                                             *)
(***************************************************************************)
\* C29: in every state of parse_inline, whatever advances the arms and the
\* parsers of links and code spans have made, the position of the cursor lies
\* between 0 and the number of tokens; advance gives the next position when
\* there is a current token and the same position at the end; is_at_eof holds
\* exactly when there is no current token; so the loop of parse_inline always
\* finds its current token.  _set_position, the other writer of the position,
\* which parse_inline never calls, sets a position below the number of tokens
\* or panics.
C29_CursorStaysInRange ==
    /\ cursor.current_position \in 0..Len(cursor.tokens)
    /\ advance(cursor.tokens, cursor.current_position)
           = IF current(cursor.tokens, cursor.current_position) # NoToken
             THEN cursor.current_position + 1
             ELSE cursor.current_position
    /\ is_at_eof(cursor.tokens, cursor.current_position)
           <=> current(cursor.tokens, cursor.current_position) = NoToken
    /\ (inl_pc = "scan" /\ ~is_at_eof(cursor.tokens, cursor.current_position))
           => current(cursor.tokens, cursor.current_position) # NoToken
    /\ \A pos \in 0..(Len(cursor.tokens) + 1) :
           /\ _set_position(cursor.tokens, cursor.current_position, pos).panic
                  <=> pos >= Len(cursor.tokens)
           /\ _set_position(cursor.tokens, cursor.current_position, pos).current_position
                  = IF pos < Len(cursor.tokens) THEN pos ELSE cursor.current_position

\* a bracket that nothing closes was scanned to the end of the tokens, where
\* the advance of parse_inline after the arm changes nothing
C29_Witness ==
    /\ inl_pc = "scan"
    /\ Len(cursor.tokens) >= 3
    /\ cursor.tokens[1] = OpenBracket
    /\ \A k \in 1..Len(cursor.tokens) : cursor.tokens[k] # CloseBracket
    /\ cursor.current_position = Len(cursor.tokens)
    /\ parsed_inline_elements # <<>>

(***************************************************************************)
(* The fence flag of group_lines_to_blocks                                  *)
(***************************************************************************)
LeadsWithCodeFence(line) == line # <<>> /\ line[1] = CodeFence

\* the CodeFence-leading lines among the lines processed so far
FenceLinesDone ==
    Cardinality({k \in 1..line_index : LeadsWithCodeFence(tokenized_lines[k])})

\* C30: after any prefix of the lines is_inside_code_block is true exactly when
\* an odd number of CodeFence-leading lines has been processed, and then the
\* groups are not empty and the last one begins with CodeFence; a line changes
\* the flag exactly when it leads with CodeFence; current_block is empty when
\* a line begins, after the last line too, so a group that a line adds (the
\* group of an opening fence among them) is that line alone.
C30_FenceFlagIsParity ==
    /\ [](/\ is_inside_code_block <=> FenceLinesDone % 2 = 1
          /\ is_inside_code_block
                 => (blocks # <<>> /\ LeadsWithCodeFence(blocks[Len(blocks)]))
          /\ current_block = <<>>)
    /\ [][AnyLineStep =>
            /\ (is_inside_code_block' # is_inside_code_block)
                   <=> LeadsWithCodeFence(NextLine)
            /\ Len(blocks') \in {Len(blocks), Len(blocks) + 1}
            /\ Len(blocks') = Len(blocks) + 1 => blocks' = Append(blocks, NextLine)
            /\ (LeadsWithCodeFence(NextLine) /\ ~is_inside_code_block)
                   => blocks' = Append(blocks, NextLine)]_vars

\* a fence was opened, closed by the second CodeFence-leading line and opened
\* again by the third, with a line of another kind grouped before it
C30_Witness ==
    /\ is_inside_code_block
    /\ FenceLinesDone = 3
    /\ line_index = 4
    /\ ~LeadsWithCodeFence(tokenized_lines[1])
    /\ Len(blocks) = 3

====
